---- MODULE Spec2Model ----
(***************************************************************************)
(* Verification model of the Distracto attention engine.                   *)
(*                                                                         *)
(* Time is counted in whole minutes (the code compares millisecond         *)
(* differences against thresholds that are whole minutes).  Multipliers    *)
(* are stored times ten (1.0 -> 10, 1.2 -> 12, ...).                       *)
(***************************************************************************)
EXTENDS Integers, Sequences, FiniteSets

VARIABLES
    now,               \* wall clock, Date.now() in minutes
    \* ---- StreakManager ----
    currentState,      \* StreakManager.currentState
    streakData,        \* StreakManager.streakData
    lastActivityTime,  \* StreakManager.lastActivityTime
    storedStreak,      \* the copy written through storageManager.saveStreak
    lastOp,            \* name of the streak operation that ran last
    pre,               \* streak fields as they were before that operation
    emitted,           \* events emitted by that operation, in order
    listeners,         \* StreakManager.listeners
    delivered,         \* the listener calls emitEvent made for them, in order
    streakCalls,       \* the streak calls waiting in saveStreak, per caller
    lastGain,          \* the start or increment of the streak made last
    \* ---- DistractionPredictor ----
    lastInterventionTime,   \* DistractionPredictor.lastInterventionTime
    interventionCooldown,   \* DistractionPredictor.interventionCooldown
    consecutiveDismissals,  \* DistractionPredictor.consecutiveDismissals
    \* ---- ActivityDetector ----
    manuallyPaused,    \* ActivityDetector.manuallyPaused
    pausedUntil,       \* ActivityDetector.pausedUntil
    \* ---- SettingsManager ----
    settings,          \* SettingsManager.settings
    hourBase,          \* hour of day of the clock's minute 0
    dayBase,           \* day of week (0 = Sunday) of the clock's minute 0
    \* ---- BackgroundService.checkForIntervention, one per tab ----
    tabEval,           \* where each tab's evaluation stands
    lastEval,          \* the assessment evaluateDistraction returned last
    triggered,         \* the intervention checkForIntervention sent last
    lastCall,          \* the predictor call that ran last, with its inputs
    \* ---- a pure function applied to drawn inputs ----
    probe,
    \* ---- ClassificationManager over StorageManager ----
    classifications,   \* the stored map of site classifications
    userSave,          \* saveUserClassification / removeClassification call
    behaviorUpdate,    \* updateFromBehavior call
    resolving,         \* getClassification call
    userChoice,        \* what the user last asked for, per URL
    lastResolve,       \* the classification getClassification returned last
    \* ---- RewardSystem ----
    userProgress,      \* RewardSystem.userProgress
    totalInterventions,      \* RewardSystem.totalInterventions
    totalProductiveMinutes,  \* RewardSystem.totalProductiveMinutes
    storedProgress,    \* what saveProgress wrote last
    awardOps,          \* the award calls in flight, one slot per caller
    awardCounts,       \* award calls started and completed in this run
    lastUnlock,        \* the unlockAchievement call that ran last
    \* ---- BackgroundService activity intake ----
    sessionState,      \* BackgroundService.sessionState
    activityQueue,     \* BackgroundService.activityQueue
    processingQueue,   \* BackgroundService.processingQueue
    drain,             \* the running processActivityQueue: its batch
    savedActivities,   \* the stored activities
    accepted,          \* the events that passed validation, in arrival order
    checksDue,         \* the checkForIntervention calls the handlers made
    lastIntake,        \* the handleActivityEvent call that ran last
    \* ---- DismissalAdaptation and ChallengeGenerator ----
    dismissalHistory,   \* DismissalAdaptation.dismissalHistory
    difficultyLevel,    \* ChallengeGenerator.difficultyLevel, in tenths
    strategiesPending,  \* executeStrategy calls waiting for the settings
    dismissedSince,     \* per URL, its dismissals since its last completion
    dismissalLog,       \* the time of every dismissal recorded
    lastRate,           \* the isHighDismissalRate call that ran last
    lastSuggestions,    \* what suggestWhitelistAdditions returned last
    \* ---- ChallengeGenerator prompts and AIModelEngine ----
    usedPrompts,        \* ChallengeGenerator.usedPrompts, in insertion order
    chosenPrompts,      \* per type, the prompts generate returned last
    modelWeights,       \* AIModelEngine.modelWeights, in tenths
    feedbackHistory,    \* AIModelEngine.feedbackHistory
    lastFeedback,       \* the updateWithFeedback call that ran last
    \* ---- PatternMatcher ----
    historicalPatterns, \* PatternMatcher.historicalPatterns
    lastUpdate,         \* PatternMatcher.lastUpdate
    similarityCalls,    \* the calculateSimilarity calls in progress
    rebuildStarts       \* the times at which a rebuild read the history

streakVars == <<currentState, streakData, lastActivityTime, storedStreak,
                lastOp, pre, emitted, streakCalls, lastGain, listeners,
                delivered>>

predictorVars == <<lastInterventionTime, interventionCooldown,
                   consecutiveDismissals, manuallyPaused, pausedUntil,
                   settings, hourBase, dayBase, tabEval, lastEval, triggered,
                   lastCall>>

classifierVars == <<classifications, userSave, behaviorUpdate, resolving,
                    userChoice, lastResolve>>

rewardVars == <<userProgress, totalInterventions, totalProductiveMinutes,
                storedProgress, awardOps, awardCounts, lastUnlock>>

intakeVars == <<sessionState, activityQueue, processingQueue, drain,
                savedActivities, accepted, checksDue, lastIntake>>

adaptationVars == <<dismissalHistory, difficultyLevel, strategiesPending,
                    dismissedSince, dismissalLog, lastRate,
                    lastSuggestions>>

engineVars == <<usedPrompts, chosenPrompts, modelWeights, feedbackHistory,
                lastFeedback>>

matcherVars == <<historicalPatterns, lastUpdate, similarityCalls,
                 rebuildStarts>>

serviceVars == <<classifierVars, rewardVars, intakeVars, adaptationVars,
                 engineVars, matcherVars>>

vars == <<now, streakVars, predictorVars, probe, serviceVars>>

\* ------------------------------------------------------------------------
\* Bounds of the model
\* ------------------------------------------------------------------------
MaxStreak == 6
MaxDismissals == 3
MaxAwards == 3
MaxInterventions == 101
MaxEvents == 4
MaxRecorded == 5
MaxUrls == 51
MaxDifficulty == 12

\* The service runs long after the epoch: the clock of the predictor starts
\* this many minutes after lastInterventionTime's initial 0.
PredictorStart == 20

\* The instants (minutes) at which the clock is read.  Their differences
\* cover both sides of the 5, 15 and 30 minute thresholds and the thresholds
\* themselves.
TimePoints == {0, 4, 5, 9, 10, 15, 20, 29, 30, 35}

\* ------------------------------------------------------------------------
\* StreakManager (src/src/models/StreakManager.ts)
\* ------------------------------------------------------------------------
INACTIVE == "inactive"
ACTIVE == "active"
BROKEN == "broken"

StreakState == {INACTIVE, ACTIVE, BROKEN}

inactivityThreshold == 30
incrementThreshold == 5

DEFAULT_STREAK ==
    [current |-> 0, longest |-> 0, lastUpdate |-> 0, multiplier |-> 10]

StreakEvent(type, value, best) ==
    [type |-> type, streakValue |-> value, isPersonalBest |-> best]

\* The manager's mutable fields together with the events of the running call.
Machine ==
    [st |-> currentState, data |-> streakData, act |-> lastActivityTime,
     stored |-> storedStreak, ev |-> <<>>]

\* Band edge off by one: 5 still earns 1.0.
calculateMultiplier_Mut(streakValue) ==
    IF streakValue <= 5 THEN 10
    ELSE IF streakValue < 10 THEN 12
    ELSE IF streakValue < 20 THEN 15
    ELSE IF streakValue < 50 THEN 20
    ELSE 25

calculateMultiplier(streakValue) ==
    IF streakValue < 5 THEN 10
    ELSE IF streakValue < 10 THEN 12
    ELSE IF streakValue < 20 THEN 15
    ELSE IF streakValue < 50 THEN 20
    ELSE 25

isMilestone(value) == value \in {5, 10, 25, 50, 100, 250, 500, 1000}

saveStreak(m) == [m EXCEPT !.stored = m.data]

emitEvent(m, event) == [m EXCEPT !.ev = Append(m.ev, event)]

startStreak(m, t) ==
    IF m.st = ACTIVE THEN m
    ELSE LET d == [m.data EXCEPT !.current = 1, !.lastUpdate = t,
                                 !.multiplier = 10]
             m1 == [m EXCEPT !.data = d, !.st = ACTIVE, !.act = t]
         IN emitEvent(saveStreak(m1), StreakEvent("start", 1, FALSE))

incrementStreak(m, t) ==
    IF m.st # ACTIVE THEN startStreak(m, t)
    ELSE LET c == m.data.current + 1
             isPersonalBest == c > m.data.longest
             d == [current |-> c,
                   longest |-> IF isPersonalBest THEN c ELSE m.data.longest,
                   lastUpdate |-> t,
                   multiplier |-> calculateMultiplier(c)]
             m1 == saveStreak([m EXCEPT !.data = d, !.act = t])
             m2 == emitEvent(m1, StreakEvent("increment", c, isPersonalBest))
         IN IF isMilestone(c)
            THEN emitEvent(m2, StreakEvent("milestone", c, FALSE))
            ELSE m2

\* The break event carries the value after the reset.
breakStreak_Mut(m, t) ==
    IF m.st # ACTIVE THEN m
    ELSE LET d == [m.data EXCEPT !.current = 0, !.lastUpdate = t,
                                 !.multiplier = 10]
             m1 == saveStreak([m EXCEPT !.data = d, !.st = BROKEN])
         IN emitEvent(m1, StreakEvent("break", d.current, FALSE))

breakStreak(m, t) ==
    IF m.st # ACTIVE THEN m
    ELSE LET brokenStreakValue == m.data.current
             d == [m.data EXCEPT !.current = 0, !.lastUpdate = t,
                                 !.multiplier = 10]
             m1 == saveStreak([m EXCEPT !.data = d, !.st = BROKEN])
         IN emitEvent(m1, StreakEvent("break", brokenStreakValue, FALSE))

\* The increment gate is strict: exactly 5 minutes does not count.
recordProductiveActivity_Mut(m, t) ==
    LET m1 == [m EXCEPT !.act = t]
    IN IF m1.st = INACTIVE THEN startStreak(m1, t)
       ELSE IF m1.st = ACTIVE
            THEN IF t - m1.data.lastUpdate > incrementThreshold
                 THEN incrementStreak(m1, t)
                 ELSE m1
       ELSE startStreak(m1, t)

recordProductiveActivity(m, t) ==
    LET m1 == [m EXCEPT !.act = t]
    IN IF m1.st = INACTIVE THEN startStreak(m1, t)
       ELSE IF m1.st = ACTIVE
            THEN IF t - m1.data.lastUpdate >= incrementThreshold
                 THEN incrementStreak(m1, t)
                 ELSE m1
       ELSE startStreak(m1, t)

\* A streak already broken is broken again.
recordDistraction_Mut(m, t) ==
    IF m.st = INACTIVE THEN m
    ELSE LET brokenStreakValue == m.data.current
             d == [m.data EXCEPT !.current = 0, !.lastUpdate = t,
                                 !.multiplier = 10]
             m1 == saveStreak([m EXCEPT !.data = d, !.st = BROKEN])
         IN emitEvent(m1, StreakEvent("break", brokenStreakValue, FALSE))

recordDistraction(m, t) ==
    IF m.st = ACTIVE THEN breakStreak(m, t) ELSE m

\* The watchdog is strict: exactly 30 minutes does not break.
checkInactivity_Mut(m, t) ==
    IF m.st # ACTIVE THEN m
    ELSE IF t - m.act > inactivityThreshold THEN breakStreak(m, t)
    ELSE m

checkInactivity(m, t) ==
    IF m.st # ACTIVE THEN m
    ELSE IF t - m.act >= inactivityThreshold THEN breakStreak(m, t)
    ELSE m

\* A listener is its id and whether its call throws.
Listener(id, throws) == [id |-> id, throws |-> throws]

\* emitEvent(event): the for loop over this.listeners from index i on.
\* Each call is in a try whose catch logs the error, so the loop goes on
\* whether the call returns or throws.
RECURSIVE emitLoop(_, _, _)
emitLoop(all, event, i) ==
    IF i > Len(all) THEN <<>>
    ELSE <<[listener |-> all[i].id, event |-> event]>>
             \o emitLoop(all, event, i + 1)

\* The throw of a listener leaves the loop.
callListeners_Mut(all, event) ==
    LET throwing == {i \in DOMAIN all : all[i].throws}
        last == IF throwing = {} THEN Len(all)
                ELSE CHOOSE i \in throwing : \A j \in throwing : i <= j
    IN [i \in 1..last |-> [listener |-> all[i].id, event |-> event]]

callListeners(all, event) == emitLoop(all, event, 1)

\* the listener calls of the emitEvent calls of one operation
RECURSIVE emitEvents(_, _)
emitEvents(all, events) ==
    IF events = <<>> THEN <<>>
    ELSE callListeners(all, Head(events)) \o emitEvents(all, Tail(events))

Snapshot ==
    [st |-> currentState, data |-> streakData, act |-> lastActivityTime,
     stored |-> storedStreak]

\* One completed call of a streak operation.  lastOp, pre and emitted
\* describe the call that has just returned; the clock stands at the time
\* of that call until the next StreakTick.
StreakCall(name, m) ==
    /\ currentState' = m.st
    /\ streakData' = m.data
    /\ lastActivityTime' = m.act
    /\ storedStreak' = m.stored
    /\ emitted' = m.ev
    /\ delivered' = emitEvents(listeners, emitted')
    /\ UNCHANGED listeners
    /\ lastOp' = name
    /\ pre' = Snapshot
    /\ UNCHANGED <<now, streakCalls, lastGain, predictorVars, probe,
                   serviceVars>>

StreakRoom == streakData.current < MaxStreak

StartStreak == StreakCall("startStreak", startStreak(Machine, now))

IncrementStreak ==
    /\ StreakRoom
    /\ StreakCall("incrementStreak", incrementStreak(Machine, now))

BreakStreak == StreakCall("breakStreak", breakStreak(Machine, now))

RecordProductiveActivity ==
    /\ StreakRoom
    /\ StreakCall("recordProductiveActivity",
                  recordProductiveActivity(Machine, now))

RecordDistraction ==
    StreakCall("recordDistraction", recordDistraction(Machine, now))

CheckInactivity ==
    StreakCall("checkInactivity", checkInactivity(Machine, now))

StreakTick ==
    /\ \E t \in TimePoints : t > now /\ now' = t
    /\ lastOp' = "none"
    /\ pre' = Snapshot
    /\ emitted' = <<>>
    /\ delivered' = <<>>
    /\ UNCHANGED listeners
    /\ UNCHANGED <<currentState, streakData, lastActivityTime, storedStreak,
                   streakCalls, lastGain, predictorVars, probe, serviceVars>>

StreakCallers == {1, 2}

\* A call that is not waiting: nothing pending after saveStreak.
IdleStreakCall == [pc |-> "idle", type |-> "none", value |-> 0, best |-> FALSE]

NoGain == [type |-> "none", at |-> 0]

StreakInit ==
    /\ streakCalls = [c \in StreakCallers |-> IdleStreakCall]
    /\ lastGain = NoGain
    /\ currentState = INACTIVE
    /\ streakData = DEFAULT_STREAK
    /\ lastActivityTime = 0
    /\ storedStreak = DEFAULT_STREAK
    /\ lastOp = "none"
    /\ pre = [st |-> INACTIVE, data |-> DEFAULT_STREAK, act |-> 0,
              stored |-> DEFAULT_STREAK]
    /\ emitted = <<>>
    /\ listeners = <<>>
    /\ delivered = <<>>

\* ------------------------------------------------------------------------
\* StreakManager with overlapping calls.  Every operation changes the
\* manager's fields before its first wait, which is the wait for
\* storageManager.saveStreak, and emits its events after it; the events of
\* an increment read streakData.current again when they are emitted.
\* ------------------------------------------------------------------------
\* the fields after the part of a call that runs before saveStreak
BeforeSave(c, name, m, waiting) ==
    /\ streakCalls[c].pc = "idle"
    /\ currentState' = m.st
    /\ streakData' = m.data
    /\ lastActivityTime' = m.act
    /\ storedStreak' = m.stored
    /\ streakCalls' = [streakCalls EXCEPT ![c] = waiting]
    /\ lastGain' =
           IF waiting.type \in {"start", "increment"}
           THEN [type |-> waiting.type, at |-> now]
           ELSE lastGain
    /\ lastOp' = name
    /\ pre' = Snapshot
    /\ emitted' = <<>>
    /\ delivered' = <<>>
    /\ UNCHANGED listeners

\* a streak call made on its own, up to its wait
OverlapCall(c, name, m, waiting) ==
    /\ BeforeSave(c, name, m, waiting)
    /\ UNCHANGED <<now, predictorVars, probe, serviceVars>>

\* what a call has pending while it waits in saveStreak: the type of its
\* first event and the values fixed before the wait
Waiting(m) ==
    IF m.ev = <<>> THEN IdleStreakCall
    ELSE [pc |-> "saving", type |-> m.ev[1].type,
          value |-> m.ev[1].streakValue, best |-> m.ev[1].isPersonalBest]

\* The gate on the time since the last update is left out.
RecordProductiveActivityCall_Mut(c) ==
    LET m == incrementStreak([Machine EXCEPT !.act = now], now)
    IN OverlapCall(c, "recordProductiveActivity", m, Waiting(m))

RecordProductiveActivityCall(c) ==
    LET m == recordProductiveActivity(Machine, now)
    IN OverlapCall(c, "recordProductiveActivity", m, Waiting(m))

RecordDistractionCall(c) ==
    LET m == recordDistraction(Machine, now)
    IN OverlapCall(c, "recordDistraction", m, Waiting(m))

CheckInactivityCall(c) ==
    LET m == checkInactivity(Machine, now)
    IN OverlapCall(c, "checkInactivity", m, Waiting(m))

\* saveStreak has returned: the events of the call are emitted
SaveStreakReturns(c) ==
    LET call == streakCalls[c]
        current == streakData.current
    IN /\ call.pc = "saving"
       /\ emitted' =
              IF call.type = "increment"
              THEN <<StreakEvent("increment", current, call.best)>>
                       \o IF isMilestone(current)
                          THEN <<StreakEvent("milestone", current, FALSE)>>
                          ELSE <<>>
              ELSE <<StreakEvent(call.type, call.value, call.best)>>
       /\ delivered' = emitEvents(listeners, emitted')
       /\ UNCHANGED listeners
       /\ streakCalls' = [streakCalls EXCEPT ![c] = IdleStreakCall]
       /\ lastOp' = "saveStreak"
       /\ pre' = Snapshot
       /\ UNCHANGED <<now, currentState, streakData, lastActivityTime,
                      storedStreak, lastGain, predictorVars, probe,
                      serviceVars>>

OverlapTimes == {0, 4, 5, 9, 10}

OverlapTick ==
    /\ \E t \in OverlapTimes : t > now /\ now' = t
    /\ lastOp' = "none"
    /\ pre' = Snapshot
    /\ emitted' = <<>>
    /\ delivered' = <<>>
    /\ UNCHANGED listeners
    /\ UNCHANGED <<currentState, streakData, lastActivityTime, storedStreak,
                   streakCalls, lastGain, predictorVars, probe, serviceVars>>

\* ------------------------------------------------------------------------
\* Text: URLs and patterns are sequences of one-character strings
\* ------------------------------------------------------------------------
\* String.prototype.includes
includes(s, sub) ==
    \E i \in 0..(Len(s) - Len(sub)) : SubSeq(s, i + 1, i + Len(sub)) = sub

\* String.prototype.toLowerCase on the letters the model's URLs use
toLowerCase(s) ==
    [i \in 1..Len(s) |-> IF s[i] = "P" THEN "p"
                         ELSE IF s[i] = "Z" THEN "z"
                         ELSE s[i]]

Scheme == <<"h", "t", "t", "p", "s", ":", "/", "/">>

\* The pages the model navigates to: host and path of an https URL.
UrlPlain == [host |-> <<"x", ".", "i", "o">>, path |-> <<"/", "a">>]
UrlSub == [host |-> <<"m", ".", "x", ".", "i", "o">>, path |-> <<"/">>]
UrlCall == [host |-> <<"z", "o", "o", "m", ".", "u", "s">>, path |-> <<"/", "j">>]
UrlSlides == [host |-> <<"y", ".", "i", "o">>, path |-> <<"/", "P", "r", "e", "s", "e", "n", "t">>]

Urls == {UrlPlain, UrlSub, UrlCall, UrlSlides}

href(url) == Scheme \o url.host \o url.path

\* new URL(url).hostname
extractDomain(url) == url.host

\* ------------------------------------------------------------------------
\* ActivityDetector (src/src/models/ActivityDetector.ts)
\* ------------------------------------------------------------------------
VIDEO_CALL_PATTERNS ==
    { <<"z", "o", "o", "m", ".", "u", "s">>,
      <<"m", "e", "e", "t", ".", "g", "o", "o", "g", "l", "e", ".", "c", "o", "m">>,
      <<"t", "e", "a", "m", "s", ".", "m", "i", "c", "r", "o", "s", "o", "f", "t", ".", "c", "o", "m">>,
      <<"w", "e", "b", "e", "x", ".", "c", "o", "m">>,
      <<"w", "h", "e", "r", "e", "b", "y", ".", "c", "o", "m">>,
      <<"j", "i", "t", "s", "i">>,
      <<"d", "i", "s", "c", "o", "r", "d", ".", "c", "o", "m", "/", "c", "h", "a", "n", "n", "e", "l", "s">>,
      <<"s", "l", "a", "c", "k", ".", "c", "o", "m", "/", "c", "a", "l", "l">>,
      <<"s", "k", "y", "p", "e", ".", "c", "o", "m">>,
      <<"f", "a", "c", "e", "t", "i", "m", "e">>,
      <<"b", "l", "u", "e", "j", "e", "a", "n", "s", ".", "c", "o", "m">>,
      <<"g", "o", "t", "o", "m", "e", "e", "t", "i", "n", "g", ".", "c", "o", "m">>,
      <<"r", "i", "n", "g", "c", "e", "n", "t", "r", "a", "l", ".", "c", "o", "m">> }

PRESENTATION_PATTERNS ==
    { <<"s", "l", "i", "d", "e", "s", ".", "g", "o", "o", "g", "l", "e", ".", "c", "o", "m", "/", "p", "r", "e", "s", "e", "n", "t">>,
      <<"p", "o", "w", "e", "r", "p", "o", "i", "n", "t", ".", "l", "i", "v", "e", ".", "c", "o", "m", "/", "p", "r", "e", "s", "e", "n", "t">>,
      <<"p", "r", "e", "z", "i", ".", "c", "o", "m", "/", "p", "r", "e", "s", "e", "n", "t">>,
      <<"c", "a", "n", "v", "a", ".", "c", "o", "m", "/", "d", "e", "s", "i", "g", "n">>,
      <<"/", "p", "r", "e", "s", "e", "n", "t">>,
      <<"/", "p", "r", "e", "s", "e", "n", "t", "a", "t", "i", "o", "n">>,
      <<"/", "s", "l", "i", "d", "e", "s", "h", "o", "w">> }

isVideoCall(url) ==
    \E pattern \in VIDEO_CALL_PATTERNS :
        includes(toLowerCase(href(url)), toLowerCase(pattern))

isPresentation(url) ==
    \E pattern \in PRESENTATION_PATTERNS :
        includes(toLowerCase(href(url)), toLowerCase(pattern))

\* ------------------------------------------------------------------------
\* contextExtractor (src/src/utils/contextExtractor.ts)
\* ------------------------------------------------------------------------
socialDomains ==
    { <<"f", "a", "c", "e", "b", "o", "o", "k", ".", "c", "o", "m">>,
      <<"t", "w", "i", "t", "t", "e", "r", ".", "c", "o", "m">>,
      <<"x", ".", "c", "o", "m">>,
      <<"i", "n", "s", "t", "a", "g", "r", "a", "m", ".", "c", "o", "m">>,
      <<"l", "i", "n", "k", "e", "d", "i", "n", ".", "c", "o", "m">>,
      <<"r", "e", "d", "d", "i", "t", ".", "c", "o", "m">>,
      <<"t", "i", "k", "t", "o", "k", ".", "c", "o", "m">>,
      <<"s", "n", "a", "p", "c", "h", "a", "t", ".", "c", "o", "m">>,
      <<"p", "i", "n", "t", "e", "r", "e", "s", "t", ".", "c", "o", "m">>,
      <<"t", "u", "m", "b", "l", "r", ".", "c", "o", "m">> }

videoDomains ==
    { <<"y", "o", "u", "t", "u", "b", "e", ".", "c", "o", "m">>,
      <<"y", "o", "u", "t", "u", ".", "b", "e">>,
      <<"n", "e", "t", "f", "l", "i", "x", ".", "c", "o", "m">>,
      <<"h", "u", "l", "u", ".", "c", "o", "m">>,
      <<"t", "w", "i", "t", "c", "h", ".", "t", "v">>,
      <<"v", "i", "m", "e", "o", ".", "c", "o", "m">>,
      <<"d", "a", "i", "l", "y", "m", "o", "t", "i", "o", "n", ".", "c", "o", "m">> }

newsDomains ==
    { <<"n", "e", "w", "s">>,
      <<"c", "n", "n", ".", "c", "o", "m">>,
      <<"b", "b", "c", ".", "c", "o", "m">>,
      <<"n", "y", "t", "i", "m", "e", "s", ".", "c", "o", "m">>,
      <<"t", "h", "e", "g", "u", "a", "r", "d", "i", "a", "n", ".", "c", "o", "m">>,
      <<"r", "e", "u", "t", "e", "r", "s", ".", "c", "o", "m">>,
      <<"a", "p", "n", "e", "w", "s", ".", "c", "o", "m">>,
      <<"b", "l", "o", "o", "m", "b", "e", "r", "g", ".", "c", "o", "m">>,
      <<"w", "s", "j", ".", "c", "o", "m">> }

productivityDomains ==
    { <<"g", "i", "t", "h", "u", "b", ".", "c", "o", "m">>,
      <<"g", "i", "t", "l", "a", "b", ".", "c", "o", "m">>,
      <<"s", "t", "a", "c", "k", "o", "v", "e", "r", "f", "l", "o", "w", ".", "c", "o", "m">>,
      <<"d", "o", "c", "s", ".", "g", "o", "o", "g", "l", "e", ".", "c", "o", "m">>,
      <<"n", "o", "t", "i", "o", "n", ".", "s", "o">>,
      <<"t", "r", "e", "l", "l", "o", ".", "c", "o", "m">>,
      <<"a", "s", "a", "n", "a", ".", "c", "o", "m">>,
      <<"s", "l", "a", "c", "k", ".", "c", "o", "m">>,
      <<"t", "e", "a", "m", "s", ".", "m", "i", "c", "r", "o", "s", "o", "f", "t", ".", "c", "o", "m">>,
      <<"z", "o", "o", "m", ".", "u", "s">>,
      <<"m", "e", "e", "t", ".", "g", "o", "o", "g", "l", "e", ".", "c", "o", "m">> }

isSocialMedia(url) == \E d \in socialDomains : includes(extractDomain(url), d)
isVideoStreaming(url) == \E d \in videoDomains : includes(extractDomain(url), d)
isNewssite(url) == \E d \in newsDomains : includes(extractDomain(url), d)
isProductivitySite(url) ==
    \E d \in productivityDomains : includes(extractDomain(url), d)

categorizeUrl(url) ==
    IF isSocialMedia(url) THEN "social-media"
    ELSE IF isVideoStreaming(url) THEN "video-streaming"
    ELSE IF isNewssite(url) THEN "news"
    ELSE IF isProductivitySite(url) THEN "productivity"
    ELSE "other"

\* Date.getHours() of a timestamp in minutes; hourBase is the hour of day
\* at minute 0.
extractTimeOfDay(timestamp) == (hourBase + (timestamp \div 60)) % 24

\* Date.getDay() of a timestamp in minutes
extractDayOfWeek(timestamp) ==
    (dayBase + ((hourBase * 60 + timestamp) \div 1440)) % 7

isWorkHours(timestamp) ==
    LET hour == extractTimeOfDay(timestamp)
        day == extractDayOfWeek(timestamp)
    IN day >= 1 /\ day <= 5 /\ hour >= 9 /\ hour < 17

isLateNight(timestamp) ==
    LET hour == extractTimeOfDay(timestamp) IN hour >= 23 \/ hour < 5

\* One page per minute already counts as rapid.
detectRabbitHole_Mut(recentHistory, sessionDuration) ==
    IF Len(recentHistory) < 3 \/ sessionDuration < 5 THEN FALSE
    ELSE LET categories ==
                 {categorizeUrl(recentHistory[i]) : i \in DOMAIN recentHistory}
         IN Len(recentHistory) >= sessionDuration /\ Cardinality(categories) <= 2

\* velocity = pageCount / sessionDuration > 1, with sessionDuration >= 5 here
detectRabbitHole(recentHistory, sessionDuration) ==
    IF Len(recentHistory) < 3 \/ sessionDuration < 5 THEN FALSE
    ELSE LET categories ==
                 {categorizeUrl(recentHistory[i]) : i \in DOMAIN recentHistory}
         IN Len(recentHistory) > sessionDuration /\ Cardinality(categories) <= 2

\* ------------------------------------------------------------------------
\* SettingsManager (src/src/models/SettingsManager.ts)
\* ------------------------------------------------------------------------
ChallengeTypes == {"reflection", "intention", "quick-task", "breathing"}

TimeRange(s, e) == [start |-> s, end |-> e]

DEFAULT_SETTINGS ==
    [interventionFrequency |-> "moderate",
     quietHours |-> <<>>,
     whitelistedSites |-> <<>>,
     preferredChallenges |->
         <<"reflection", "intention", "quick-task", "breathing">>,
     learningMode |-> TRUE]

isHourInRange_Mut(hour, range) ==
    IF range.end >= range.start
    THEN hour >= range.start /\ hour <= range.end
    ELSE hour > range.start \/ hour <= range.end

\* The test is one comparison for a plain range and a union of the two ends
\* for a range that crosses midnight.
isHourInRange(hour, range) ==
    IF range.end >= range.start
    THEN hour >= range.start /\ hour <= range.end
    ELSE hour >= range.start \/ hour <= range.end

normalize(range) ==
    IF range.end < range.start
    THEN {TimeRange(range.start, 23), TimeRange(0, range.end)}
    ELSE {range}

timeRangesOverlap_Mut(range1, range2) ==
    range1.start <= range2.end /\ range2.start <= range1.end

timeRangesOverlap(range1, range2) ==
    \E r1 \in normalize(range1), r2 \in normalize(range2) :
        r1.start <= r2.end /\ r2.start <= r1.end

isInQuietHours ==
    LET currentHour == extractTimeOfDay(now)
    IN \E i \in DOMAIN settings.quietHours :
           isHourInRange(currentHour, settings.quietHours[i])

isWhitelisted(url) ==
    LET domain == extractDomain(url)
    IN /\ domain # <<>>
       /\ \E i \in DOMAIN settings.whitelistedSites :
              \/ includes(domain, settings.whitelistedSites[i])
              \/ includes(settings.whitelistedSites[i], domain)

\* ------------------------------------------------------------------------
\* ActivityDetector state queries
\* ------------------------------------------------------------------------
shouldPauseInterventions(url) ==
    IF manuallyPaused THEN TRUE
    ELSE IF now < pausedUntil THEN TRUE
    ELSE isVideoCall(url) \/ isPresentation(url)

\* getPauseStatus().reason; the remaining minutes in the text are left out
getPauseStatusReason ==
    IF manuallyPaused THEN "Manually paused"
    ELSE IF now < pausedUntil THEN "Paused for more minutes"
    ELSE "Not paused"

\* ------------------------------------------------------------------------
\* DistractionPredictor (src/unnamed/part_005)
\* Scores are integers in units of 1/10000; confidences in units of 1/1000.
\* ------------------------------------------------------------------------
DISTRACTION_THRESHOLDS_Mut ==
    [aggressive |-> 4000, moderate |-> 5000, minimal |-> 8000]

DISTRACTION_THRESHOLDS ==
    [aggressive |-> 4000, moderate |-> 6000, minimal |-> 8000]

DefaultCooldown == 5
EscalatedCooldown == 15

isInCooldown == (now - lastInterventionTime) < interventionCooldown

Assessment(isDistraction, confidence, reason, challenge) ==
    [isDistraction |-> isDistraction, confidence |-> confidence,
     reason |-> reason, suggestedChallenge |-> challenge]

NoChallenge == "none"

\* The five pre-checks of evaluateDistraction in the order the code runs
\* them; <<>> when none applies.
preCheckReason(url) ==
    IF shouldPauseInterventions(url) THEN <<getPauseStatusReason>>
    ELSE IF isInQuietHours THEN <<"Quiet hours - interventions disabled">>
    ELSE IF isWhitelisted(url) THEN <<"Site is whitelisted">>
    ELSE IF settings.learningMode
         THEN <<"Learning mode - observing behavior">>
    ELSE IF isInCooldown THEN <<"Intervention cooldown active">>
    ELSE <<>>

longSession(context) ==
    context.sessionDuration > 60 /\ context.lastProductiveActivity > 30

calculateDistractionScore(aiConfidence, classification, context) ==
    LET aiTerm == aiConfidence * 4
        classTerm ==
            IF classification.category = "distraction"
            THEN classification.confidence * 3
            ELSE IF classification.category = "productive"
            THEN (1000 - classification.confidence) * 3
            ELSE 500 * 3
        contextScore ==
            (IF detectRabbitHole(context.recentHistory,
                                 context.sessionDuration) THEN 400 ELSE 0)
            + (IF isLateNight(context.timestamp) THEN 300 ELSE 0)
            + (IF longSession(context) THEN 300 ELSE 0)
    IN aiTerm + classTerm + contextScore * 3

generateReason(aiConfidence, classification, context) ==
    LET r1 == IF classification.category = "distraction"
              THEN <<"Site classified as distraction">> ELSE <<>>
        r2 == IF detectRabbitHole(context.recentHistory,
                                  context.sessionDuration)
              THEN <<"Rapid navigation pattern detected">> ELSE <<>>
        r3 == IF isLateNight(context.timestamp)
              THEN <<"Late night browsing">> ELSE <<>>
        r4 == IF longSession(context)
              THEN <<"Extended session without productive activity">>
              ELSE <<>>
        r5 == IF aiConfidence > 700
              THEN <<"AI model high confidence distraction">> ELSE <<>>
        reasons == r1 \o r2 \o r3 \o r4 \o r5
    IN IF reasons = <<>> THEN <<"Distraction score">> ELSE reasons

\* ChallengeGenerator.selectTypeForContext: the types Math.random can pick
selectTypeForContext(context, preferredTypes) ==
    IF Len(preferredTypes) > 0
    THEN {preferredTypes[i] : i \in DOMAIN preferredTypes}
    ELSE IF isLateNight(context.timestamp) THEN {"breathing", "reflection"}
    ELSE IF isWorkHours(context.timestamp) THEN {"intention", "quick-task"}
    ELSE IF categorizeUrl(context.url) \in {"social-media", "video-streaming"}
    THEN {"reflection", "intention"}
    ELSE ChallengeTypes

NoCall ==
    [op |-> "none", url |-> UrlPlain, count |-> 0, cooldown |-> 0]

IdleEval ==
    [pc |-> "idle", url |-> UrlPlain, context |-> <<>>, aiConfidence |-> 0,
     frequency |-> "moderate", preferred |-> <<>>]

NoEval ==
    [kind |-> "none", tab |-> 0, url |-> UrlPlain, frequency |-> "moderate",
     result |-> Assessment(FALSE, 0, <<>>, NoChallenge)]

NoTrigger == [kind |-> "none", at |-> 0, previous |-> 0, cooldown |-> 0]

\* evaluateDistraction up to its first storage read: the pre-checks and the
\* AI prediction.  A pre-check that applies returns at once, and
\* checkForIntervention then does nothing; otherwise the evaluation is
\* pending on the classification.
EvaluateBegin(tab, context, aiConfidence) ==
    /\ tabEval[tab].pc = "idle"
    /\ LET reason == preCheckReason(context.url)
       IN IF reason # <<>>
          THEN /\ lastEval' = [kind |-> "shortcut", tab |-> tab,
                               url |-> context.url,
                               frequency |-> settings.interventionFrequency,
                               result |-> Assessment(FALSE, 0, reason,
                                                     NoChallenge)]
               /\ UNCHANGED tabEval
          ELSE /\ tabEval' = [tabEval EXCEPT ![tab] =
                     [pc |-> "classifying", url |-> context.url,
                      context |-> context, aiConfidence |-> aiConfidence,
                      frequency |-> settings.interventionFrequency,
                      preferred |-> settings.preferredChallenges]]
               /\ lastEval' = [kind |-> "pending", tab |-> tab,
                               url |-> context.url,
                               frequency |-> settings.interventionFrequency,
                               result |-> Assessment(FALSE, 0, <<>>,
                                                     NoChallenge)]
    /\ triggered' = NoTrigger
    /\ lastCall' = NoCall
    /\ UNCHANGED <<now, streakVars, lastInterventionTime,
                   interventionCooldown, consecutiveDismissals,
                   manuallyPaused, pausedUntil, settings, hourBase, dayBase, probe, serviceVars>>

\* The rest of evaluateDistraction once the classification has arrived, and
\* the rest of checkForIntervention: a flagged assessment records the
\* intervention and is sent to the tab.
EvaluateFinish(tab, classification, challengeType) ==
    /\ tabEval[tab].pc = "classifying"
    /\ LET e == tabEval[tab]
           distractionScore ==
               calculateDistractionScore(e.aiConfidence, classification,
                                         e.context)
           threshold == DISTRACTION_THRESHOLDS[e.frequency]
           isDistraction == distractionScore >= threshold
           reason == generateReason(e.aiConfidence, classification, e.context)
           challenge == IF isDistraction THEN challengeType ELSE NoChallenge
       IN /\ challengeType \in selectTypeForContext(e.context, e.preferred)
          /\ lastEval' = [kind |-> "scored", tab |-> tab, url |-> e.url,
                          frequency |-> e.frequency,
                          result |-> Assessment(isDistraction,
                                                distractionScore, reason,
                                                challenge)]
          /\ IF isDistraction /\ challenge # NoChallenge
             THEN /\ lastInterventionTime' = now
                  /\ triggered' = [kind |-> "intervention", at |-> now,
                                   previous |-> lastInterventionTime,
                                   cooldown |-> interventionCooldown]
             ELSE /\ triggered' = NoTrigger
                  /\ UNCHANGED lastInterventionTime
    /\ tabEval' = [tabEval EXCEPT ![tab] = IdleEval]
    /\ lastCall' = NoCall
    /\ UNCHANGED <<now, streakVars, interventionCooldown,
                   consecutiveDismissals, manuallyPaused, pausedUntil,
                   settings, hourBase, dayBase, probe, serviceVars>>

\* The same step when a collaborator fails.  evaluateDistraction has no
\* error handler of its own.  A failed storage read is caught inside
\* StorageManager.getSiteClassification, which answers null, so the
\* classification is the AI or rule-based one and scoring goes on as usual.
\* An exception thrown by generateChallenge (called only for a flagged
\* score) leaves evaluateDistraction as a rejection, which
\* checkForIntervention catches and logs: no assessment is returned.
Faults == {"storage read", "challenge generation"}

EvaluateFinishAfterFault(tab, fault, classification, challengeType) ==
    /\ tabEval[tab].pc = "classifying"
    /\ LET e == tabEval[tab]
           distractionScore ==
               calculateDistractionScore(e.aiConfidence, classification,
                                         e.context)
           threshold == DISTRACTION_THRESHOLDS[e.frequency]
           isDistraction == distractionScore >= threshold
           reason == generateReason(e.aiConfidence, classification, e.context)
           challenge == IF isDistraction THEN challengeType ELSE NoChallenge
       IN /\ challengeType \in selectTypeForContext(e.context, e.preferred)
          /\ IF fault = "challenge generation"
             THEN /\ isDistraction
                  /\ lastEval' = [kind |-> "raised", tab |-> tab,
                                  url |-> e.url, frequency |-> e.frequency,
                                  fault |-> fault,
                                  result |-> Assessment(FALSE, 0, <<>>,
                                                        NoChallenge)]
                  /\ triggered' = NoTrigger
                  /\ UNCHANGED lastInterventionTime
             ELSE /\ lastEval' = [kind |-> "scored", tab |-> tab,
                                  url |-> e.url, frequency |-> e.frequency,
                                  fault |-> fault,
                                  result |-> Assessment(isDistraction,
                                                        distractionScore,
                                                        reason, challenge)]
                  /\ IF isDistraction /\ challenge # NoChallenge
                     THEN /\ lastInterventionTime' = now
                          /\ triggered' =
                                 [kind |-> "intervention", at |-> now,
                                  previous |-> lastInterventionTime,
                                  cooldown |-> interventionCooldown]
                     ELSE /\ triggered' = NoTrigger
                          /\ UNCHANGED lastInterventionTime
    /\ tabEval' = [tabEval EXCEPT ![tab] = IdleEval]
    /\ lastCall' = NoCall
    /\ UNCHANGED <<now, streakVars, interventionCooldown,
                   consecutiveDismissals, manuallyPaused, pausedUntil,
                   settings, hourBase, dayBase, probe, serviceVars>>

getDismissalCount(url) ==
    IF url \in DOMAIN consecutiveDismissals
    THEN consecutiveDismissals[url] ELSE 0

\* Map.set / Map.delete on consecutiveDismissals
mapSet(map, key, value) ==
    [k \in DOMAIN map \cup {key} |-> IF k = key THEN value ELSE map[k]]

mapDelete(map, key) == [k \in DOMAIN map \ {key} |-> map[k]]

cooldownAfterDismissal_Mut(count, cooldown) ==
    IF count >= 3 THEN EscalatedCooldown ELSE cooldown

\* recordDismissal: count is the number of dismissals before this one
cooldownAfterDismissal(count, cooldown) ==
    IF count >= 2 THEN EscalatedCooldown ELSE cooldown

cooldownAfterCompletion(url, cooldown) == DefaultCooldown

PredictorCall(name, url) ==
    /\ lastCall' = [op |-> name, url |-> url,
                    count |-> getDismissalCount(url),
                    cooldown |-> interventionCooldown]
    /\ lastEval' = NoEval
    /\ triggered' = NoTrigger

RecordDismissal(url) ==
    /\ getDismissalCount(url) < MaxDismissals
    /\ LET count == getDismissalCount(url)
       IN /\ consecutiveDismissals' =
                 mapSet(consecutiveDismissals, url, count + 1)
          /\ interventionCooldown' =
                 cooldownAfterDismissal(count, interventionCooldown)
    /\ PredictorCall("recordDismissal", url)
    /\ UNCHANGED <<now, streakVars, lastInterventionTime, manuallyPaused,
                   pausedUntil, settings, hourBase, dayBase, tabEval, probe, serviceVars>>

RecordCompletion(url) ==
    /\ consecutiveDismissals' = mapDelete(consecutiveDismissals, url)
    /\ interventionCooldown' =
           cooldownAfterCompletion(url, interventionCooldown)
    /\ PredictorCall("recordCompletion", url)
    /\ UNCHANGED <<now, streakVars, lastInterventionTime, manuallyPaused,
                   pausedUntil, settings, hourBase, dayBase, tabEval, probe, serviceVars>>

\* Time passes; the records of the last call are dropped.
PredictorTick ==
    /\ \E t \in TimePoints : t > now /\ now' = t
    /\ lastEval' = NoEval
    /\ triggered' = NoTrigger
    /\ lastCall' = NoCall
    /\ UNCHANGED <<streakVars, lastInterventionTime, interventionCooldown,
                   consecutiveDismissals, manuallyPaused, pausedUntil,
                   settings, hourBase, dayBase, tabEval, probe, serviceVars>>

\* ------------------------------------------------------------------------
\* Settings and pause operations
\* ------------------------------------------------------------------------
SettingsCall(newSettings) ==
    /\ settings' = newSettings
    /\ lastEval' = NoEval
    /\ triggered' = NoTrigger
    /\ UNCHANGED <<now, streakVars, lastInterventionTime,
                   interventionCooldown, consecutiveDismissals,
                   manuallyPaused, pausedUntil, hourBase, dayBase, tabEval, lastCall,
                   probe, serviceVars>>

SetLearningMode(enabled) ==
    SettingsCall([settings EXCEPT !.learningMode = enabled])

SetInterventionFrequency(frequency) ==
    SettingsCall([settings EXCEPT !.interventionFrequency = frequency])

\* An empty list is rejected with an error and the settings stay as they are.
setPreferredChallenges(s, challenges) ==
    IF Len(challenges) = 0 THEN s
    ELSE [s EXCEPT !.preferredChallenges = challenges]

SetPreferredChallenges(challenges) ==
    SettingsCall(setPreferredChallenges(settings, challenges))

addToWhitelist(s, url) ==
    LET domain == extractDomain(url)
    IN IF \E i \in DOMAIN s.whitelistedSites : s.whitelistedSites[i] = domain
       THEN s
       ELSE [s EXCEPT !.whitelistedSites = Append(@, domain)]

AddToWhitelist(url) == SettingsCall(addToWhitelist(settings, url))

ClearWhitelist == SettingsCall([settings EXCEPT !.whitelistedSites = <<>>])

\* A range outside 0..23 or one that overlaps a configured range is
\* rejected with an error and the settings stay as they are.
addQuietHours(s, timeRange) ==
    IF \/ timeRange.start < 0 \/ timeRange.start > 23
       \/ timeRange.end < 0 \/ timeRange.end > 23
    THEN s
    ELSE IF \E i \in DOMAIN s.quietHours :
                timeRangesOverlap(s.quietHours[i], timeRange)
    THEN s
    ELSE [s EXCEPT !.quietHours = Append(@, timeRange)]

AddQuietHours(timeRange) == SettingsCall(addQuietHours(settings, timeRange))

ClearQuietHours == SettingsCall([settings EXCEPT !.quietHours = <<>>])

PauseCall(manual, until) ==
    /\ manuallyPaused' = manual
    /\ pausedUntil' = until
    /\ lastEval' = NoEval
    /\ triggered' = NoTrigger
    /\ UNCHANGED <<now, streakVars, lastInterventionTime,
                   interventionCooldown, consecutiveDismissals, settings,
                   hourBase, dayBase, tabEval, lastCall, probe, serviceVars>>

Pause(durationMinutes) == PauseCall(manuallyPaused, now + durationMinutes)

Resume == PauseCall(FALSE, 0)

ToggleManualPause == PauseCall(~manuallyPaused, pausedUntil)

\* ------------------------------------------------------------------------
\* ClassificationManager (src/src/models/ClassificationManager.ts) over the
\* stored classifications map.  Every storage read and write is a step of
\* its own; saveSiteClassification reads the whole map and writes it back.
\* ------------------------------------------------------------------------
Classification(category, confidence, source) ==
    [category |-> category, confidence |-> confidence, source |-> source]

NoClassification == Classification("none", 0, "none")

\* StorageManager.getSiteClassification on a map as read
getSiteClassification(map, key) ==
    IF key \in DOMAIN map THEN map[key] ELSE NoClassification

IdleOp ==
    [pc |-> "idle", key |-> <<>>, classification |-> NoClassification,
     snapshot |-> <<>>]

NoResolve ==
    [key |-> <<>>, choice |-> "none", result |-> NoClassification]

ClassifierInit ==
    /\ classifications = <<>>
    /\ userSave = IdleOp
    /\ behaviorUpdate = IdleOp
    /\ resolving = [pc |-> "idle", url |-> UrlPlain, choice |-> "none",
                    fallback |-> NoClassification]
    /\ userChoice = <<>>
    /\ lastResolve = NoResolve

ClassifierFrame ==
    UNCHANGED <<now, streakVars, predictorVars, probe, rewardVars,
                intakeVars, adaptationVars, engineVars, matcherVars>>

\* saveSiteClassification, first half: await getAllClassifications()
BeginSave(key, classification) ==
    [pc |-> "writing", key |-> key, classification |-> classification,
     snapshot |-> classifications]

\* saveSiteClassification, second half: classifications[url] = c and
\* setStorageData of the whole map as it was read
writeBack(op) == mapSet(op.snapshot, op.key, op.classification)

\* saveUserClassification(url, category)
SaveUserClassificationBegin(url, category) ==
    /\ userSave.pc = "idle"
    /\ userSave' = BeginSave(href(url),
                             Classification(category, 1000, "user"))
    /\ userChoice' = mapDelete(userChoice, href(url))
    /\ lastResolve' = NoResolve
    /\ UNCHANGED <<classifications, behaviorUpdate, resolving>>
    /\ ClassifierFrame

\* removeClassification(url): the entry is overwritten with a neutral default
RemoveClassificationBegin(url) ==
    /\ userSave.pc = "idle"
    /\ userSave' = BeginSave(href(url),
                             Classification("neutral", 500, "default"))
    /\ userChoice' = mapDelete(userChoice, href(url))
    /\ lastResolve' = NoResolve
    /\ UNCHANGED <<classifications, behaviorUpdate, resolving>>
    /\ ClassifierFrame

UserSaveWrite ==
    /\ userSave.pc = "writing"
    /\ classifications' = writeBack(userSave)
    /\ userChoice' =
           IF userSave.classification.source = "user"
           THEN mapSet(userChoice, userSave.key,
                       userSave.classification.category)
           ELSE userChoice
    /\ userSave' = IdleOp
    /\ lastResolve' = NoResolve
    /\ UNCHANGED <<behaviorUpdate, resolving>>
    /\ ClassifierFrame

\* updateFromBehavior up to the decision: the feedback goes to the AI model,
\* the current entry is read, and unless it is a user entry the AI's new
\* classification is handed to saveSiteClassification.
BehaviorDecision(url, aiClassification) ==
    /\ behaviorUpdate.pc = "idle"
    /\ LET currentClassification ==
               getSiteClassification(classifications, href(url))
       IN IF currentClassification = NoClassification
             \/ currentClassification.source # "user"
          THEN behaviorUpdate' =
                   [pc |-> "loading", key |-> href(url),
                    classification |-> aiClassification, snapshot |-> <<>>]
          ELSE behaviorUpdate' = IdleOp
    /\ lastResolve' = NoResolve
    /\ UNCHANGED <<classifications, userSave, resolving, userChoice>>

\* what updateFromBehavior does to the classifications; what its feedback
\* does to the AI model is UpdateFromBehavior, further down
UpdateFromBehaviorCheck(url, aiClassification) ==
    BehaviorDecision(url, aiClassification) /\ ClassifierFrame

UpdateFromBehaviorLoad ==
    /\ behaviorUpdate.pc = "loading"
    /\ behaviorUpdate' = BeginSave(behaviorUpdate.key,
                                   behaviorUpdate.classification)
    /\ lastResolve' = NoResolve
    /\ UNCHANGED <<classifications, userSave, resolving, userChoice>>
    /\ ClassifierFrame

UpdateFromBehaviorWrite ==
    /\ behaviorUpdate.pc = "writing"
    /\ classifications' = writeBack(behaviorUpdate)
    /\ behaviorUpdate' = IdleOp
    /\ lastResolve' = NoResolve
    /\ UNCHANGED <<userSave, resolving, userChoice>>
    /\ ClassifierFrame

\* getClassification: the entry of the exact URL, then the entry of the
\* domain, then the AI or rule-based classification.
GetClassificationBegin(url, fallback) ==
    /\ resolving.pc = "idle"
    /\ LET userClassification ==
               getSiteClassification(classifications, href(url))
           choice == IF href(url) \in DOMAIN userChoice
                     THEN userChoice[href(url)] ELSE "none"
       IN IF userClassification.source = "user"
          THEN /\ lastResolve' = [key |-> href(url), choice |-> choice,
                                  result |-> userClassification]
               /\ UNCHANGED resolving
          ELSE /\ resolving' = [pc |-> "domain", url |-> url,
                                choice |-> choice, fallback |-> fallback]
               /\ lastResolve' = NoResolve
    /\ UNCHANGED <<classifications, userSave, behaviorUpdate, userChoice>>
    /\ ClassifierFrame

GetClassificationDomain ==
    /\ resolving.pc = "domain"
    /\ LET domainClassification ==
               getSiteClassification(classifications,
                                     extractDomain(resolving.url))
       IN lastResolve' =
              [key |-> href(resolving.url), choice |-> resolving.choice,
               result |-> IF domainClassification.source = "user"
                          THEN domainClassification
                          ELSE resolving.fallback]
    /\ resolving' = [pc |-> "idle", url |-> UrlPlain, choice |-> "none",
                     fallback |-> NoClassification]
    /\ UNCHANGED <<classifications, userSave, behaviorUpdate, userChoice>>
    /\ ClassifierFrame

\* ------------------------------------------------------------------------
\* getClassification with the two classifiers it falls back on.  A stored
\* entry carries the key it was saved under as its url; the classifications
\* of the AI model and of the rule-based classifier are inputs.
\* ------------------------------------------------------------------------
SiteClassification(url, classification) ==
    [url |-> url, category |-> classification.category,
     confidence |-> classification.confidence,
     source |-> classification.source]

\* what getSiteClassification answers for a key without an entry
NoSite == SiteClassification(<<>>, NoClassification)

storedAt(map, key) ==
    IF key \in DOMAIN map THEN SiteClassification(key, map[key]) ELSE NoSite

\* saveDomainClassification(url, category)
SaveDomainClassificationBegin(url, category) ==
    /\ userSave.pc = "idle"
    /\ userSave' = BeginSave(extractDomain(url),
                             Classification(category, 1000, "user"))
    /\ lastResolve' = NoResolve
    /\ UNCHANGED <<classifications, behaviorUpdate, resolving, userChoice>>
    /\ ClassifierFrame

Resolved(url, exact, domain, ai, rule, result) ==
    [key |-> href(url), choice |-> "none", result |-> result,
     exact |-> exact, domain |-> domain, ai |-> ai, rule |-> rule]

\* getClassification up to the second read: the entry of the exact URL
GetClassificationExact(url) ==
    /\ resolving.pc = "idle"
    /\ LET userClassification == storedAt(classifications, href(url))
       IN IF userClassification.source = "user"
          THEN /\ lastResolve' =
                      Resolved(url, userClassification, NoSite, NoSite,
                               NoSite, userClassification)
               /\ UNCHANGED resolving
          ELSE /\ resolving' =
                      [pc |-> "scorers", url |-> url, choice |-> "none",
                       fallback |-> NoClassification,
                       exact |-> userClassification]
               /\ lastResolve' = NoResolve
    /\ UNCHANGED <<classifications, userSave, behaviorUpdate, userChoice>>
    /\ ClassifierFrame

\* the rule-based classification is returned whenever the AI's confidence
\* is low
chooseClassification_Mut(aiClassification, ruleClassification) ==
    IF aiClassification.confidence < 600
    THEN ruleClassification
    ELSE aiClassification

\* the AI's classification, or the rule-based one when the AI's confidence
\* is below 0.6 and the rule-based confidence is higher
chooseClassification(aiClassification, ruleClassification) ==
    IF /\ aiClassification.confidence < 600
       /\ ruleClassification.confidence > aiClassification.confidence
    THEN ruleClassification
    ELSE aiClassification

\* getClassification from the read of the domain's entry on
GetClassificationScorers(ai, rule) ==
    /\ resolving.pc = "scorers"
    /\ LET url == resolving.url
           domainClassification ==
               storedAt(classifications, extractDomain(url))
           aiClassification == SiteClassification(href(url), ai)
           ruleClassification == SiteClassification(href(url), rule)
       IN lastResolve' =
              Resolved(url, resolving.exact, domainClassification,
                       aiClassification, ruleClassification,
                       IF domainClassification.source = "user"
                       THEN [domainClassification EXCEPT !.url = href(url)]
                       ELSE chooseClassification(aiClassification,
                                                 ruleClassification))
    /\ resolving' = [pc |-> "idle", url |-> UrlPlain, choice |-> "none",
                     fallback |-> NoClassification]
    /\ UNCHANGED <<classifications, userSave, behaviorUpdate, userChoice>>
    /\ ClassifierFrame

\* ------------------------------------------------------------------------
\* RewardSystem (src/src/models/RewardSystem.ts).  An award call runs until
\* it waits for storage or for a notification; calls of different events
\* interleave at those waits.
\* ------------------------------------------------------------------------
POINT_VALUES ==
    [PRODUCTIVE_SESSION_5MIN |-> 5, PRODUCTIVE_SESSION_15MIN |-> 15,
     PRODUCTIVE_SESSION_30MIN |-> 30, PRODUCTIVE_SESSION_60MIN |-> 60,
     INTERVENTION_COMPLETED |-> 10, STREAK_MILESTONE |-> 50,
     PERSONAL_BEST |-> 100, DAILY_GOAL_MET |-> 25]

LEVEL_THRESHOLDS ==
    <<0, 100, 250, 500, 1000, 2000, 4000, 8000, 15000, 30000>>

ACHIEVEMENTS ==
    {"first_intervention", "streak_5", "streak_10", "streak_25",
     "streak_50", "streak_100", "level_5", "level_10", "interventions_10",
     "interventions_50", "interventions_100", "week_streak",
     "productive_1000"}

\* the loop runs from the highest threshold down and returns at the first
\* one the total has reached
calculateLevel(totalPoints) ==
    LET reached == {i \in 1..Len(LEVEL_THRESHOLDS) :
                        totalPoints >= LEVEL_THRESHOLDS[i]}
    IN IF reached = {} THEN 1
       ELSE CHOOSE i \in reached : \A j \in reached : j <= i

getPointsToNextLevel(totalPoints, currentLevel) ==
    IF currentLevel >= Len(LEVEL_THRESHOLDS) THEN 0
    ELSE LEVEL_THRESHOLDS[currentLevel + 1] - totalPoints

Progress(level, totalPoints, pointsToNextLevel, achievements) ==
    [level |-> level, totalPoints |-> totalPoints,
     pointsToNextLevel |-> pointsToNextLevel, achievements |-> achievements]

Unlocked(progress) ==
    {progress.achievements[i].id : i \in DOMAIN progress.achievements}

\* Without the already-unlocked check.
unlockAchievement_Mut(progress, achievementId, t) ==
    IF achievementId \notin ACHIEVEMENTS THEN progress
    ELSE [progress EXCEPT !.achievements =
              Append(@, [id |-> achievementId, unlockedAt |-> t])]

\* unlockAchievement up to its push
unlockAchievement(progress, achievementId, t) ==
    IF achievementId \in Unlocked(progress) THEN progress
    ELSE IF achievementId \notin ACHIEVEMENTS THEN progress
    ELSE [progress EXCEPT !.achievements =
              Append(@, [id |-> achievementId, unlockedAt |-> t])]

calculateSessionPoints(durationMinutes, streak) ==
    LET basePoints ==
            IF durationMinutes >= 60
            THEN POINT_VALUES.PRODUCTIVE_SESSION_60MIN
            ELSE IF durationMinutes >= 30
            THEN POINT_VALUES.PRODUCTIVE_SESSION_30MIN
            ELSE IF durationMinutes >= 15
            THEN POINT_VALUES.PRODUCTIVE_SESSION_15MIN
            ELSE IF durationMinutes >= 5
            THEN POINT_VALUES.PRODUCTIVE_SESSION_5MIN
            ELSE 0
    IN (basePoints * streak.multiplier) \div 10

\* The second milestone at 11 instead of 10.
interventionMilestone_Mut(count) ==
    IF count = 1 THEN "first_intervention"
    ELSE IF count = 11 THEN "interventions_10"
    ELSE IF count = 50 THEN "interventions_50"
    ELSE IF count = 100 THEN "interventions_100"
    ELSE "none"

\* checkInterventionAchievements: the id whose count equals the counter
interventionMilestone(count) ==
    IF count = 1 THEN "first_intervention"
    ELSE IF count = 10 THEN "interventions_10"
    ELSE IF count = 50 THEN "interventions_50"
    ELSE IF count = 100 THEN "interventions_100"
    ELSE "none"

\* checkStreakAchievements
streakMilestone(streakValue) ==
    IF streakValue = 5 THEN "streak_5"
    ELSE IF streakValue = 10 THEN "streak_10"
    ELSE IF streakValue = 25 THEN "streak_25"
    ELSE IF streakValue = 50 THEN "streak_50"
    ELSE IF streakValue = 100 THEN "streak_100"
    ELSE "none"

\* Only level 10 has an achievement.
levelAchievement_Mut(level) ==
    IF level = 10 THEN "level_10"
    ELSE "none"

\* unlockLevelAchievement
levelAchievement(level) ==
    IF level = 5 THEN "level_5"
    ELSE IF level = 10 THEN "level_10"
    ELSE "none"

IdleAward == [pc |-> "idle", kind |-> "none", arg |-> 0]

NoUnlock == [id |-> "none", wasUnlocked |-> FALSE]

AwardCallers == {1, 2}

\* loadProgress and initialize on what an earlier run stored.  The stored
\* progress of an earlier run has the level and the level achievements of
\* its total.
StoredProgress(totalPoints) ==
    LET level == calculateLevel(totalPoints)
    IN Progress(level, totalPoints,
                getPointsToNextLevel(totalPoints, level),
                IF level >= 10
                THEN <<[id |-> "level_5", unlockedAt |-> 0],
                       [id |-> "level_10", unlockedAt |-> 0]>>
                ELSE IF level >= 5
                THEN <<[id |-> "level_5", unlockedAt |-> 0]>>
                ELSE <<>>)

Saved(progress, interventions, minutes) ==
    [dar_user_progress |-> progress, dar_total_interventions |-> interventions,
     dar_total_productive_minutes |-> minutes]

RewardInit(totalPoints) ==
    /\ userProgress = StoredProgress(totalPoints)
    /\ totalInterventions = 0
    /\ totalProductiveMinutes = 0
    /\ storedProgress = Saved(StoredProgress(totalPoints), 0, 0)
    /\ awardOps = [c \in AwardCallers |-> IdleAward]
    /\ awardCounts = [started |-> 0, completed |-> 0, interventions |-> 0]
    /\ lastUnlock = NoUnlock

RewardFrame ==
    UNCHANGED <<now, streakVars, predictorVars, probe, classifierVars,
                intakeVars, adaptationVars, engineVars, matcherVars>>

\* an award call returns to its caller
Completes(c, op) ==
    /\ awardOps' = [awardOps EXCEPT ![c] = IdleAward]
    /\ awardCounts' =
           [awardCounts EXCEPT
                !.completed = @ + 1,
                !.interventions =
                    IF op.kind = "intervention" THEN @ + 1 ELSE @]

\* addPoints up to its first wait
AddPoints(c, op, points) ==
    LET totalPoints == userProgress.totalPoints + points
        newLevel == calculateLevel(totalPoints)
        added == [userProgress EXCEPT !.totalPoints = totalPoints]
        levelled == [added EXCEPT !.level = newLevel]
        id == levelAchievement(newLevel)
        unlocked == unlockAchievement(levelled, id, now)
    IN IF newLevel > userProgress.level
       THEN /\ lastUnlock' =
                   IF id = "none" THEN NoUnlock
                   ELSE [id |-> id,
                         wasUnlocked |-> id \in Unlocked(userProgress)]
            /\ IF unlocked # levelled
               THEN \* the push, then the wait for saveProgress and for
                    \* the notification inside unlockAchievement
                    /\ userProgress' = unlocked
                    /\ storedProgress' =
                           Saved(unlocked, totalInterventions,
                                 totalProductiveMinutes)
                    /\ awardOps' =
                           [awardOps EXCEPT
                                ![c] = [op EXCEPT !.pc = "levelAchievement"]]
               ELSE \* nothing to wait for before the points to the next
                    \* level; then the wait for showLevelUp
                    /\ userProgress' =
                           [levelled EXCEPT
                                !.pointsToNextLevel =
                                    getPointsToNextLevel(totalPoints,
                                                         newLevel)]
                    /\ awardOps' =
                           [awardOps EXCEPT
                                ![c] = [op EXCEPT !.pc = "levelUp"]]
                    /\ UNCHANGED storedProgress
       ELSE /\ userProgress' =
                   [added EXCEPT
                        !.pointsToNextLevel =
                            getPointsToNextLevel(totalPoints,
                                                 userProgress.level)]
            /\ storedProgress' =
                   Saved(userProgress', totalInterventions,
                         totalProductiveMinutes)
            /\ awardOps' = [awardOps EXCEPT ![c] = [op EXCEPT !.pc = "saving"]]
            /\ lastUnlock' = NoUnlock

\* an award call runs up to the first wait of addPoints
Award(c, kind, arg) ==
    /\ awardOps[c].pc = "idle"
    /\ AddPoints(c, [pc |-> "idle", kind |-> kind, arg |-> arg],
                 IF kind = "intervention"
                 THEN POINT_VALUES.INTERVENTION_COMPLETED
                 ELSE IF kind = "streakMilestone"
                 THEN POINT_VALUES.STREAK_MILESTONE
                 ELSE IF kind = "personalBest"
                 THEN POINT_VALUES.PERSONAL_BEST
                 ELSE POINT_VALUES.DAILY_GOAL_MET)
    /\ awardCounts' = [awardCounts EXCEPT !.started = @ + 1]
    /\ UNCHANGED <<totalInterventions, totalProductiveMinutes>>
    /\ RewardFrame

awardInterventionPoints(c) == Award(c, "intervention", 0)

awardStreakMilestone(c, streakValue) == Award(c, "streakMilestone", streakValue)

awardPersonalBest(c) == Award(c, "personalBest", 0)

awardDailyGoal(c) == Award(c, "dailyGoal", 0)

\* awardProductiveSession up to its wait for getCurrentStreak
awardProductiveSession(c, durationMinutes) ==
    /\ awardOps[c].pc = "idle"
    /\ awardOps' =
           [awardOps EXCEPT
                ![c] = [pc |-> "streak", kind |-> "productiveSession",
                        arg |-> durationMinutes]]
    /\ awardCounts' = [awardCounts EXCEPT !.started = @ + 1]
    /\ lastUnlock' = NoUnlock
    /\ UNCHANGED <<userProgress, totalInterventions, totalProductiveMinutes,
                   storedProgress>>
    /\ RewardFrame

\* awardProductiveSession once the stored streak has been read
ProductiveSessionPoints(c) ==
    /\ awardOps[c].pc = "streak"
    /\ LET op == awardOps[c]
           points == calculateSessionPoints(op.arg, storedStreak)
       IN IF points > 0
          THEN /\ AddPoints(c, op, points)
               /\ UNCHANGED awardCounts
          ELSE /\ Completes(c, op)
               /\ lastUnlock' = NoUnlock
               /\ UNCHANGED <<userProgress, storedProgress>>
    /\ UNCHANGED <<totalInterventions, totalProductiveMinutes>>
    /\ RewardFrame

\* addPoints after the level achievement was saved and announced: the
\* points to the next level, then the wait for showLevelUp
AddPointsAfterLevelAchievement(c) ==
    /\ awardOps[c].pc = "levelAchievement"
    /\ userProgress' =
           [userProgress EXCEPT
                !.pointsToNextLevel =
                    getPointsToNextLevel(userProgress.totalPoints,
                                         userProgress.level)]
    /\ awardOps' = [awardOps EXCEPT ![c].pc = "levelUp"]
    /\ lastUnlock' = NoUnlock
    /\ UNCHANGED <<totalInterventions, totalProductiveMinutes,
                   storedProgress, awardCounts>>
    /\ RewardFrame

\* addPoints after showLevelUp: saveProgress
AddPointsAfterLevelUp(c) ==
    /\ awardOps[c].pc = "levelUp"
    /\ storedProgress' =
           Saved(userProgress, totalInterventions, totalProductiveMinutes)
    /\ awardOps' = [awardOps EXCEPT ![c].pc = "saving"]
    /\ lastUnlock' = NoUnlock
    /\ UNCHANGED <<userProgress, totalInterventions, totalProductiveMinutes,
                   awardCounts>>
    /\ RewardFrame

\* the rest of an award call once addPoints has returned: the counters and
\* the achievement check of its kind
AfterAddPoints(c) ==
    /\ awardOps[c].pc = "saving"
    /\ LET op == awardOps[c]
           interventions ==
               IF op.kind = "intervention" THEN totalInterventions + 1
               ELSE totalInterventions
           minutes ==
               IF op.kind = "productiveSession"
               THEN totalProductiveMinutes + op.arg
               ELSE totalProductiveMinutes
           id == IF op.kind = "intervention"
                 THEN interventionMilestone(interventions)
                 ELSE IF op.kind = "streakMilestone"
                 THEN streakMilestone(op.arg)
                 ELSE IF op.kind = "productiveSession" /\ minutes >= 1000
                 THEN "productive_1000"
                 ELSE "none"
           unlocked == unlockAchievement(userProgress, id, now)
       IN /\ totalInterventions' = interventions
          /\ totalProductiveMinutes' = minutes
          /\ userProgress' = unlocked
          /\ lastUnlock' =
                 IF id = "none" THEN NoUnlock
                 ELSE [id |-> id,
                       wasUnlocked |-> id \in Unlocked(userProgress)]
          /\ IF unlocked # userProgress
             THEN /\ storedProgress' = Saved(unlocked, interventions, minutes)
                  /\ awardOps' = [awardOps EXCEPT ![c].pc = "unlocking"]
                  /\ UNCHANGED awardCounts
             ELSE /\ Completes(c, op)
                  /\ UNCHANGED storedProgress
    /\ RewardFrame

\* the award call returns after its achievement was saved and announced
AfterUnlock(c) ==
    /\ awardOps[c].pc = "unlocking"
    /\ Completes(c, awardOps[c])
    /\ lastUnlock' = NoUnlock
    /\ UNCHANGED <<userProgress, totalInterventions, totalProductiveMinutes,
                   storedProgress>>
    /\ RewardFrame

\* the instants at which an achievement can be stamped
RewardTimes == {0, 5}

RewardTick ==
    /\ \E t \in RewardTimes : t > now /\ now' = t
    /\ lastUnlock' = NoUnlock
    /\ UNCHANGED <<streakVars, predictorVars, probe, classifierVars,
                   intakeVars, adaptationVars, engineVars, matcherVars, userProgress,
                   totalInterventions,
                   totalProductiveMinutes, storedProgress, awardOps,
                   awardCounts>>

\* ------------------------------------------------------------------------
\* BackgroundService activity intake (src/unnamed/part_004) and the
\* validators it calls (src/unnamed/part_002).  Timestamps are minutes, the
\* clock reads Epoch + now.
\* ------------------------------------------------------------------------
Epoch == 1000

OneYear == 365 * 24 * 60

SevenDays == 7 * 24 * 60

batchSize == 10

\* new URL(url) accepts a string that has a scheme and a host
isValidUrl(url) ==
    /\ Len(url) > Len(Scheme)
    /\ SubSeq(url, 1, Len(Scheme)) = Scheme

isValidTimestamp(timestamp) ==
    timestamp > 0 /\ timestamp <= Epoch + now + OneYear

isValidHour(hour) == hour >= 0 /\ hour <= 23

isValidDayOfWeek(day) == day >= 0 /\ day <= 6

ActivityContext(url, title, timestamp, timeOfDay, dayOfWeek, recentHistory, sessionDuration, lastProductiveActivity) ==
    [url |-> url, title |-> title, timestamp |-> timestamp,
     timeOfDay |-> timeOfDay, dayOfWeek |-> dayOfWeek,
     recentHistory |-> recentHistory, sessionDuration |-> sessionDuration,
     lastProductiveActivity |-> lastProductiveActivity]

ActivityEvent(url, timestamp, eventType, duration, context) ==
    [url |-> url, timestamp |-> timestamp, eventType |-> eventType,
     duration |-> duration, context |-> context]

\* the errors validateBrowsingContext collects
validateBrowsingContext(context) ==
    (IF isValidUrl(context.url) THEN {} ELSE {"Invalid URL"})
    \cup (IF context.title = <<>> THEN {"Title cannot be empty"} ELSE {})
    \cup (IF isValidTimestamp(context.timestamp) THEN {}
          ELSE {"Invalid timestamp"})
    \cup (IF isValidHour(context.timeOfDay) THEN {}
          ELSE {"Invalid time of day"})
    \cup (IF isValidDayOfWeek(context.dayOfWeek) THEN {}
          ELSE {"Invalid day of week"})
    \cup (IF \A i \in DOMAIN context.recentHistory :
                 isValidUrl(context.recentHistory[i])
          THEN {} ELSE {"Invalid URL in recent history"})
    \cup (IF context.sessionDuration < 0
          THEN {"Session duration cannot be negative"} ELSE {})
    \cup (IF context.lastProductiveActivity < 0
          THEN {"Last productive activity cannot be negative"} ELSE {})

\* the errors validateActivityEvent collects; an absent duration is the
\* empty sequence
validateActivityEvent(event) ==
    (IF isValidUrl(event.url) THEN {} ELSE {<<"Invalid URL">>})
    \cup (IF isValidTimestamp(event.timestamp) THEN {}
          ELSE {<<"Invalid timestamp">>})
    \cup (IF event.eventType
                 \in {"navigation", "focus", "blur", "scroll", "click"}
          THEN {} ELSE {<<"Invalid event type">>})
    \cup (IF event.duration # <<>> /\ event.duration[1] < 0
          THEN {<<"Duration cannot be negative">>} ELSE {})
    \cup {<<"Context", e>> : e \in validateBrowsingContext(event.context)}

updateSessionState(state, event) ==
    [state EXCEPT !.lastActivityTime = event.timestamp,
                  !.activityCount = @ + 1,
                  !.currentUrl = IF event.eventType = "navigation"
                                 THEN event.url ELSE @,
                  !.isActive = TRUE]

\* Array.prototype.splice(0, n): the removed head and what stays
spliceHead(queue, n) ==
    IF Len(queue) <= n THEN queue ELSE SubSeq(queue, 1, n)

spliceRest(queue, n) ==
    IF Len(queue) <= n THEN <<>> ELSE SubSeq(queue, n + 1, Len(queue))

\* StorageManager.saveActivity: append, keep the last seven days
saveActivity(activities, activity) ==
    SelectSeq(Append(activities, activity),
              LAMBDA a : a.timestamp >= Epoch + now - SevenDays)

NoCheck == [due |-> FALSE, tabId |-> 0, url |-> <<>>]

InterventionCheck(event, tabId) ==
    IF event.eventType = "navigation" /\ tabId # 0
    THEN [due |-> TRUE, tabId |-> tabId, url |-> event.context.url]
    ELSE NoCheck

IdleDrain == [pc |-> "idle", batch |-> <<>>, then |-> NoCheck]

NoIntake == [outcome |-> "none", event |-> <<>>, errors |-> {}]

IntakeInit ==
    /\ sessionState = [startTime |-> Epoch, lastActivityTime |-> Epoch,
                       currentUrl |-> <<>>, isActive |-> TRUE,
                       activityCount |-> 0]
    /\ activityQueue = <<>>
    /\ processingQueue = FALSE
    /\ drain = IdleDrain
    /\ savedActivities = <<>>
    /\ accepted = <<>>
    /\ checksDue = <<>>
    /\ lastIntake = NoIntake

IntakeFrame ==
    UNCHANGED <<now, streakVars, predictorVars, probe, classifierVars,
                rewardVars, adaptationVars, engineVars, matcherVars>>

\* The session is updated before the event is validated.
RejectActivityEvent_Mut(event, errors) ==
    /\ lastIntake' =
           [outcome |-> "rejected", event |-> event, errors |-> errors]
    /\ sessionState' = updateSessionState(sessionState, event)
    /\ UNCHANGED <<activityQueue, processingQueue, drain,
                   savedActivities, accepted, checksDue>>

\* handleActivityEvent on an event that fails validation: the throw
RejectActivityEvent(event, errors) ==
    /\ lastIntake' =
           [outcome |-> "rejected", event |-> event, errors |-> errors]
    /\ UNCHANGED <<activityQueue, sessionState, processingQueue, drain,
                   savedActivities, accepted, checksDue>>

\* processActivityQueue without the test of processingQueue: the handler
\* takes a batch of its own while another one is being saved.
HandleActivityEvent_Mut(event, tabId) ==
    /\ LET errors == validateActivityEvent(event)
           queue == Append(activityQueue, event)
       IN IF errors # {}
          THEN RejectActivityEvent(event, errors)
          ELSE /\ lastIntake' =
                      [outcome |-> "accepted", event |-> event,
                       errors |-> {}]
               /\ accepted' = Append(accepted, event)
               /\ sessionState' = updateSessionState(sessionState, event)
               /\ processingQueue' = TRUE
               /\ activityQueue' = spliceRest(queue, batchSize)
               /\ drain' = [pc |-> "saving",
                            batch |-> spliceHead(queue, batchSize),
                            then |-> InterventionCheck(event, tabId)]
               /\ UNCHANGED <<savedActivities, checksDue>>
    /\ IntakeFrame

\* handleActivityEvent up to its first wait.  The handler that finds the
\* queue being processed goes straight on to checkForIntervention; the one
\* that starts processing does so when processActivityQueue returns.
HandleActivityEvent(event, tabId) ==
    /\ LET errors == validateActivityEvent(event)
           queue == Append(activityQueue, event)
       IN IF errors # {}
          THEN RejectActivityEvent(event, errors)
          ELSE /\ lastIntake' =
                      [outcome |-> "accepted", event |-> event,
                       errors |-> {}]
               /\ accepted' = Append(accepted, event)
               /\ sessionState' = updateSessionState(sessionState, event)
               /\ UNCHANGED savedActivities
               /\ IF processingQueue
                  THEN /\ activityQueue' = queue
                       /\ checksDue' =
                              IF InterventionCheck(event, tabId).due
                              THEN Append(checksDue,
                                          InterventionCheck(event, tabId))
                              ELSE checksDue
                       /\ UNCHANGED <<processingQueue, drain>>
                  ELSE /\ processingQueue' = TRUE
                       /\ activityQueue' = spliceRest(queue, batchSize)
                       /\ drain' =
                              [pc |-> "saving",
                               batch |-> spliceHead(queue, batchSize),
                               then |-> InterventionCheck(event, tabId)]
                       /\ UNCHANGED checksDue
    /\ IntakeFrame

\* processActivityQueue when saveActivity returns for the event in hand:
\* the next event of the batch, the next batch, or the end of processing
SaveActivityReturns(ok) ==
    /\ drain.pc = "saving"
    /\ LET event == Head(drain.batch)
           rest == Tail(drain.batch)
           queue == IF ok THEN activityQueue
                    ELSE <<event>> \o activityQueue
       IN /\ savedActivities' =
                 IF ok THEN saveActivity(savedActivities, event)
                 ELSE savedActivities
          /\ IF ok /\ rest # <<>>
             THEN /\ drain' = [drain EXCEPT !.batch = rest]
                  /\ UNCHANGED <<activityQueue, processingQueue, checksDue>>
             ELSE IF queue # <<>>
             THEN /\ drain' =
                         [drain EXCEPT
                              !.batch = spliceHead(queue, batchSize)]
                  /\ activityQueue' = spliceRest(queue, batchSize)
                  /\ UNCHANGED <<processingQueue, checksDue>>
             ELSE /\ drain' = IdleDrain
                  /\ processingQueue' = FALSE
                  /\ checksDue' =
                         IF drain.then.due
                         THEN Append(checksDue, drain.then)
                         ELSE checksDue
                  /\ UNCHANGED activityQueue
    /\ lastIntake' = NoIntake
    /\ UNCHANGED <<sessionState, accepted>>
    /\ IntakeFrame

IntakeTimes == {0, 5}

IntakeTick ==
    /\ \E t \in IntakeTimes : t > now /\ now' = t
    /\ lastIntake' = NoIntake
    /\ UNCHANGED <<streakVars, predictorVars, probe, classifierVars,
                   rewardVars, adaptationVars, engineVars, matcherVars, activityQueue, sessionState,
                   processingQueue, drain, savedActivities, accepted,
                   checksDue>>

\* ------------------------------------------------------------------------
\* DismissalAdaptation (src/unnamed/part_007) with the difficulty level of
\* the ChallengeGenerator it adjusts (src/unnamed/part_006).  URLs are
\* numbered in the order of their first dismissal; the difficulty level is
\* in tenths; a record's context is written and never read and is left out.
\* ------------------------------------------------------------------------
maxHistorySize == 50

adaptationThresholds == [low |-> 3, medium |-> 5, high |-> 10]

OneHour == 60

DismissalRecord(url, timestamp, consecutiveCount) ==
    [url |-> url, timestamp |-> timestamp,
     consecutiveCount |-> consecutiveCount]

AdaptationStrategy(interventionFrequency, cooldownMultiplier, challengeDifficultyAdjustment, shouldSuggestSettings) ==
    [interventionFrequency |-> interventionFrequency,
     cooldownMultiplier |-> cooldownMultiplier,
     challengeDifficultyAdjustment |-> challengeDifficultyAdjustment,
     shouldSuggestSettings |-> shouldSuggestSettings]

\* dismissalHistory.findIndex(r => r.url === url), 0 when there is none
findIndex(history, url) ==
    IF \E i \in DOMAIN history : history[i].url = url
    THEN CHOOSE i \in DOMAIN history :
             /\ history[i].url = url
             /\ \A j \in DOMAIN history : history[j].url = url => i <= j
    ELSE 0

\* recordDismissal up to applyAdaptation: update or push, then trim
recordDismissal(history, url, t) ==
    LET existingIndex == findIndex(history, url)
        updated ==
            IF existingIndex > 0
            THEN [history EXCEPT
                      ![existingIndex].consecutiveCount = @ + 1,
                      ![existingIndex].timestamp = t]
            ELSE Append(history, DismissalRecord(url, t, 1))
    IN IF Len(updated) > maxHistorySize THEN Tail(updated) ELSE updated

\* recordCompletion: splice(index, 1)
recordCompletion(history, url) ==
    LET index == findIndex(history, url)
    IN IF index > 0
       THEN SubSeq(history, 1, index - 1)
                \o SubSeq(history, index + 1, Len(history))
       ELSE history

determineStrategy(dismissalCount) ==
    IF dismissalCount >= adaptationThresholds.high
    THEN AdaptationStrategy("minimal", 30, 0 - 2, TRUE)
    ELSE IF dismissalCount >= adaptationThresholds.medium
    THEN AdaptationStrategy("moderate", 20, 0 - 1, TRUE)
    ELSE IF dismissalCount >= adaptationThresholds.low
    THEN AdaptationStrategy("moderate", 15, 0, FALSE)
    ELSE AdaptationStrategy("moderate", 10, 0, FALSE)

\* ChallengeGenerator.adjustDifficulty
adjustDifficulty(level, completed) ==
    IF completed
    THEN IF level + 1 < 50 THEN level + 1 ELSE 50
    ELSE IF level - 2 > 10 THEN level - 2 ELSE 10

RECURSIVE adjustTimes(_, _)
\* the loop of executeStrategy: |challengeDifficultyAdjustment| calls
adjustTimes(level, adjustment) ==
    IF adjustment = 0 THEN level
    ELSE adjustTimes(adjustDifficulty(level, adjustment > 0),
                     IF adjustment > 0 THEN adjustment - 1
                     ELSE adjustment + 1)

frequencyOrder == [aggressive |-> 3, moderate |-> 2, minimal |-> 1]

adaptationDismissalCount(history, url) ==
    IF findIndex(history, url) > 0
    THEN history[findIndex(history, url)].consecutiveCount
    ELSE 0

getTotalDismissals(history, timeRange) ==
    Len(SelectSeq(history, LAMBDA r : r.timestamp >= now - timeRange))

\* getDismissalRate(one hour) > 3: dismissals / 1
isHighDismissalRate(history) ==
    getTotalDismissals(history, OneHour) > 3

NoRate == [asked |-> FALSE, high |-> FALSE]

NoSuggestions ==
    [asked |-> FALSE, urls |-> <<>>, history |-> <<>>, whitelist |-> <<>>]

\* The text of the numbered URLs: the pages of the model, in order.
AdaptedPages == <<UrlPlain, UrlSub, UrlCall, UrlSlides>>

recordHref(url) == href(AdaptedPages[url])

\* settings.whitelistedSites.some(pattern => record.url.includes(pattern))
suggestionWhitelisted(url, whitelistedSites) ==
    \E i \in DOMAIN whitelistedSites :
        includes(recordHref(url), whitelistedSites[i])

RECURSIVE collectSuggestions(_, _, _)
\* the loop of suggestWhitelistAdditions over the records from index i on
collectSuggestions(history, whitelistedSites, i) ==
    IF i > Len(history) THEN <<>>
    ELSE LET record == history[i]
             rest == collectSuggestions(history, whitelistedSites, i + 1)
         IN IF /\ record.consecutiveCount >= adaptationThresholds.medium
               /\ ~suggestionWhitelisted(record.url, whitelistedSites)
            THEN <<record.url>>
                     \o SelectSeq(rest, LAMBDA u : u # record.url)
            ELSE rest

\* suggestions.slice(0, 5)
suggestWhitelistAdditions(history, whitelistedSites) ==
    LET suggestions == collectSuggestions(history, whitelistedSites, 1)
    IN SubSeq(suggestions, 1,
              IF Len(suggestions) < 5 THEN Len(suggestions) ELSE 5)

AdaptationInit ==
    /\ dismissalHistory = <<>>
    /\ difficultyLevel = 10
    /\ strategiesPending = <<>>
    /\ dismissedSince = <<>>
    /\ dismissalLog = <<>>
    /\ lastRate = NoRate
    /\ lastSuggestions = NoSuggestions

AdaptationFrame ==
    UNCHANGED <<now, streakVars, probe, classifierVars, rewardVars,
                intakeVars, engineVars, matcherVars>>

PredictorFrame ==
    UNCHANGED <<lastInterventionTime, interventionCooldown,
                consecutiveDismissals, hourBase, dayBase, tabEval, lastCall,
                manuallyPaused, pausedUntil, lastEval, triggered>>

\* DismissalAdaptation.recordDismissal with applyAdaptation up to the wait
\* for getSettings in executeStrategy
RecordAdaptationDismissal(url) ==
    /\ LET history == recordDismissal(dismissalHistory, url, now)
           count == adaptationDismissalCount(history, url)
           strategy == determineStrategy(count)
       IN /\ dismissalHistory' = history
          /\ IF count = 0
             THEN UNCHANGED <<difficultyLevel, strategiesPending>>
             ELSE /\ difficultyLevel' =
                         adjustTimes(difficultyLevel,
                                     strategy.challengeDifficultyAdjustment)
                  /\ strategiesPending' =
                         IF strategy.shouldSuggestSettings
                         THEN Append(strategiesPending,
                                     strategy.interventionFrequency)
                         ELSE strategiesPending
    /\ dismissedSince' =
           IF url \in DOMAIN dismissedSince
           THEN [dismissedSince EXCEPT ![url] = @ + 1]
           ELSE [u \in DOMAIN dismissedSince \cup {url} |->
                     IF u = url THEN 1 ELSE dismissedSince[u]]
    /\ dismissalLog' = Append(dismissalLog, now)
    /\ lastRate' = NoRate
    /\ lastSuggestions' = NoSuggestions
    /\ UNCHANGED settings
    /\ PredictorFrame
    /\ AdaptationFrame

ExecuteStrategySettings_Mut ==
    /\ strategiesPending # <<>>
    /\ settings' = [settings EXCEPT
                        !.interventionFrequency = Head(strategiesPending)]
    /\ strategiesPending' = Tail(strategiesPending)
    /\ lastRate' = NoRate
    /\ lastSuggestions' = NoSuggestions
    /\ UNCHANGED <<dismissalHistory, difficultyLevel, dismissedSince,
                   dismissalLog>>
    /\ PredictorFrame
    /\ AdaptationFrame

\* executeStrategy once the settings have been read: the frequency is only
\* ever loosened
ExecuteStrategySettings ==
    /\ strategiesPending # <<>>
    /\ settings' =
           IF frequencyOrder[settings.interventionFrequency]
                  > frequencyOrder[Head(strategiesPending)]
           THEN [settings EXCEPT
                     !.interventionFrequency = Head(strategiesPending)]
           ELSE settings
    /\ strategiesPending' = Tail(strategiesPending)
    /\ lastRate' = NoRate
    /\ lastSuggestions' = NoSuggestions
    /\ UNCHANGED <<dismissalHistory, difficultyLevel, dismissedSince,
                   dismissalLog>>
    /\ PredictorFrame
    /\ AdaptationFrame

\* DismissalAdaptation.recordCompletion
RecordAdaptationCompletion(url) ==
    /\ dismissalHistory' = recordCompletion(dismissalHistory, url)
    /\ dismissedSince' =
           [u \in DOMAIN dismissedSince \ {url} |-> dismissedSince[u]]
    /\ lastRate' = NoRate
    /\ lastSuggestions' = NoSuggestions
    /\ UNCHANGED <<difficultyLevel, strategiesPending, dismissalLog,
                   settings>>
    /\ PredictorFrame
    /\ AdaptationFrame

\* ChallengeGenerator.adjustDifficulty(true), as on a completed challenge
RaiseDifficulty ==
    /\ difficultyLevel' = adjustDifficulty(difficultyLevel, TRUE)
    /\ lastRate' = NoRate
    /\ lastSuggestions' = NoSuggestions
    /\ UNCHANGED <<dismissalHistory, strategiesPending, dismissedSince,
                   dismissalLog, settings>>
    /\ PredictorFrame
    /\ AdaptationFrame

\* DismissalAdaptation.isHighDismissalRate
IsHighDismissalRate ==
    /\ lastRate' = [asked |-> TRUE,
                    high |-> isHighDismissalRate(dismissalHistory)]
    /\ lastSuggestions' = NoSuggestions
    /\ UNCHANGED <<dismissalHistory, difficultyLevel, strategiesPending,
                   dismissedSince, dismissalLog, settings>>
    /\ PredictorFrame
    /\ AdaptationFrame

\* DismissalAdaptation.suggestWhitelistAdditions: the settings are at hand
\* (getSettings returns its copy without waiting for storage)
SuggestWhitelistAdditions ==
    /\ lastSuggestions' =
           [asked |-> TRUE,
            urls |-> suggestWhitelistAdditions(dismissalHistory,
                                               settings.whitelistedSites),
            history |-> dismissalHistory,
            whitelist |-> settings.whitelistedSites]
    /\ UNCHANGED <<dismissalHistory, difficultyLevel, strategiesPending,
                   dismissedSince, dismissalLog, lastRate, settings>>
    /\ PredictorFrame
    /\ AdaptationFrame

\* ------------------------------------------------------------------------
\* BackgroundService.handleInterventionResponse up to its first wait: the
\* predictor, the challenge generator, the adaptation and the streak
\* manager are called in one run; the streak manager waits for its save.
\* ------------------------------------------------------------------------
ResponseFrame ==
    UNCHANGED <<now, lastInterventionTime, manuallyPaused, pausedUntil,
                settings, hourBase, dayBase, tabEval, probe, classifierVars,
                rewardVars, intakeVars, engineVars, matcherVars>>

\* the dismissed branch
DismissedResponse(url, c) ==
    /\ LET count == getDismissalCount(url)
       IN /\ consecutiveDismissals' =
                 mapSet(consecutiveDismissals, url, count + 1)
          /\ interventionCooldown' =
                 cooldownAfterDismissal(count, interventionCooldown)
    /\ PredictorCall("recordDismissal", url)
    /\ LET level == adjustDifficulty(difficultyLevel, FALSE)
           history == recordDismissal(dismissalHistory, url, now)
           strategy ==
               determineStrategy(adaptationDismissalCount(history, url))
       IN /\ dismissalHistory' = history
          /\ difficultyLevel' =
                 adjustTimes(level, strategy.challengeDifficultyAdjustment)
          /\ strategiesPending' =
                 IF strategy.shouldSuggestSettings
                 THEN Append(strategiesPending,
                             strategy.interventionFrequency)
                 ELSE strategiesPending
    /\ dismissedSince' =
           mapSet(dismissedSince, url,
                  IF url \in DOMAIN dismissedSince
                  THEN dismissedSince[url] + 1 ELSE 1)
    /\ dismissalLog' = Append(dismissalLog, now)
    /\ lastRate' = NoRate
    /\ lastSuggestions' = NoSuggestions
    /\ LET m == recordDistraction(Machine, now)
       IN BeforeSave(c, "recordDistraction", m, Waiting(m))
    /\ ResponseFrame

\* the completed branch
CompletedResponse(url, c) ==
    /\ consecutiveDismissals' = mapDelete(consecutiveDismissals, url)
    /\ interventionCooldown' =
           cooldownAfterCompletion(url, interventionCooldown)
    /\ PredictorCall("recordCompletion", url)
    /\ difficultyLevel' = adjustDifficulty(difficultyLevel, TRUE)
    /\ dismissalHistory' = recordCompletion(dismissalHistory, url)
    /\ dismissedSince' = mapDelete(dismissedSince, url)
    /\ lastRate' = NoRate
    /\ lastSuggestions' = NoSuggestions
    /\ UNCHANGED <<strategiesPending, dismissalLog>>
    /\ LET m == recordProductiveActivity(Machine, now)
       IN BeforeSave(c, "recordProductiveActivity", m, Waiting(m))
    /\ ResponseFrame

AdaptationTimes == {0, 60, 61}

AdaptationTick ==
    /\ \E t \in AdaptationTimes : t > now /\ now' = t
    /\ lastRate' = NoRate
    /\ lastSuggestions' = NoSuggestions
    /\ UNCHANGED <<streakVars, predictorVars, probe, classifierVars,
                   rewardVars, intakeVars, engineVars, matcherVars, dismissalHistory,
                   difficultyLevel, strategiesPending, dismissedSince,
                   dismissalLog>>

\* ------------------------------------------------------------------------
\* ChallengeGenerator prompt selection (src/unnamed/part_006)
\* ------------------------------------------------------------------------
\* DistractionPredictor.evaluate reaches selectPrompt through
\* generateChallenge; the predictor's actions carry the type of the
\* challenge only, and the prompt memory is driven by Generate and
\* GenerateChallenge below, which are the same calls with any type and any
\* random draw.

\* CHALLENGE_TEMPLATES[type].prompts: every type has five distinct prompts,
\* named here by their position in the array
CHALLENGE_TEMPLATES(type) == <<1, 2, 3, 4, 5>>

\* how many of the prompts returned the model remembers per type
ChosenWindow == 4

\* Set.has on a Set kept in insertion order
has(set, value) == \E i \in DOMAIN set : set[i] = value

remember(chosen, prompt) ==
    LET all == Append(chosen, prompt)
    IN IF Len(all) > ChosenWindow THEN Tail(all) ELSE all

\* selectPrompt with Math.random drawing index r: the prompt returned and
\* the Set it leaves behind
selectPrompt_Mut(used, prompts, r) ==
    LET unused == SelectSeq(prompts, LAMBDA p : ~ has(used, p))
    IN IF Len(unused) = 0
       THEN [prompt |-> prompts[((r - 1) % Len(prompts)) + 1], used |-> <<>>]
       ELSE LET selected == unused[((r - 1) % Len(unused)) + 1]
                added == Append(used, selected)
            IN [prompt |-> selected,
                used |-> IF Len(added) > 2 THEN Tail(added) ELSE added]

selectPrompt(used, prompts, r) ==
    LET unused == SelectSeq(prompts, LAMBDA p : ~ has(used, p))
    IN IF Len(unused) = 0
       THEN [prompt |-> prompts[((r - 1) % Len(prompts)) + 1], used |-> <<>>]
       ELSE LET selected == unused[((r - 1) % Len(unused)) + 1]
                added == Append(used, selected)
            IN [prompt |-> selected,
                used |-> IF Len(added) > 3 THEN Tail(added) ELSE added]

\* the draws Math.floor(Math.random() * length) can make
RandomDraws == 1..5

\* generate(type, context, preferredTypes) with a type given
Generate(type, r) ==
    LET picked == selectPrompt(usedPrompts[type], CHALLENGE_TEMPLATES(type), r)
    IN /\ usedPrompts' = [usedPrompts EXCEPT ![type] = picked.used]
       /\ chosenPrompts' =
              [chosenPrompts EXCEPT ![type] = remember(@, picked.prompt)]
       /\ UNCHANGED <<now, streakVars, predictorVars, probe, classifierVars,
                      rewardVars, intakeVars, adaptationVars, matcherVars, modelWeights,
                      feedbackHistory, lastFeedback>>

\* generateChallenge(context, preferredTypes): generate(null, ...)
GenerateChallenge(context, preferredTypes, r) ==
    \E type \in selectTypeForContext(context, preferredTypes) :
        Generate(type, r)

\* ------------------------------------------------------------------------
\* AIModelEngine feedback (src/src/models/AIModelEngine.ts)
\* ------------------------------------------------------------------------
\* ClassificationManager.updateFromBehavior and the FeedbackService hand
\* their feedback to updateWithFeedback; the classifier's actions draw the
\* AI's verdict from a set instead of reading the weights, and the weights
\* are driven by UpdateWithFeedback below.

\* initializeModel, in tenths
initializeModel ==
    [k \in {"late_night", "work_hours", "social_media", "video_streaming",
            "news", "productivity", "domain_hopping", "rabbit_hole",
            "long_session", "recent_distraction"} |->
        CASE k = "late_night" -> 3
          [] k = "work_hours" -> 0 - 2
          [] k = "social_media" -> 4
          [] k = "video_streaming" -> 5
          [] k = "news" -> 2
          [] k = "productivity" -> 0 - 5
          [] k = "domain_hopping" -> 3
          [] k = "rabbit_hole" -> 6
          [] k = "long_session" -> 2
          [] k = "recent_distraction" -> 4]

FEEDBACK_LIMIT == 100

\* this.modelWeights.get(key) || 0
weightOf(weights, key) == IF key \in DOMAIN weights THEN weights[key] ELSE 0

\* this.modelWeights.set(key, value)
setWeight(weights, key, value) ==
    [k \in DOMAIN weights \cup {key} |->
        IF k = key THEN value ELSE weights[k]]

analyzeNavigationPattern(recentHistory) ==
    IF Len(recentHistory) < 2 THEN "single-page"
    ELSE LET uniqueDomains ==
                 {extractDomain(recentHistory[i]) : i \in DOMAIN recentHistory}
         IN IF Cardinality(uniqueDomains) = 1 THEN "same-site"
            ELSE IF Cardinality(uniqueDomains) = Len(recentHistory)
            THEN "domain-hopping"
            ELSE "mixed-browsing"

extractFeatures(context) ==
    [timeOfDay |-> extractTimeOfDay(context.timestamp),
     dayOfWeek |-> extractDayOfWeek(context.timestamp),
     recentProductiveMinutes |-> context.lastProductiveActivity,
     siteCategory |-> categorizeUrl(context.url),
     navigationPattern |-> analyzeNavigationPattern(context.recentHistory),
     sessionDuration |-> context.sessionDuration]

\* the keys whose weight predict adds to the score of a context
predictKeys(context) ==
    LET features == extractFeatures(context)
    IN {features.siteCategory}
       \cup (IF isLateNight(context.timestamp) THEN {"late_night"} ELSE {})
       \cup (IF isWorkHours(context.timestamp) THEN {"work_hours"} ELSE {})
       \cup (IF features.navigationPattern = "domain-hopping"
             THEN {"domain_hopping"} ELSE {})
       \cup (IF detectRabbitHole(context.recentHistory,
                                 context.sessionDuration)
             THEN {"rabbit_hole"} ELSE {})
       \cup (IF context.sessionDuration > 60
                /\ context.lastProductiveActivity > 30
             THEN {"long_session"} ELSE {})
       \cup (IF context.lastProductiveActivity > 15
             THEN {"recent_distraction"} ELSE {})

UserFeedback(url, wasDistraction, timestamp, context) ==
    [url |-> url, wasDistraction |-> wasDistraction,
     timestamp |-> timestamp, context |-> context]

NoFeedback == [ran |-> FALSE, feedback |-> <<>>, by |-> "none"]

\* the weights after updateWithFeedback(feedback)
adjustWeights(weights, feedback) ==
    LET features == extractFeatures(feedback.context)
        category == features.siteCategory
        adjustment == IF feedback.wasDistraction THEN 1 ELSE 0 - 1
        w1 == setWeight(weights, category,
                        weightOf(weights, category) + adjustment)
        w2 == IF isLateNight(feedback.timestamp)
              THEN setWeight(w1, "late_night",
                             weightOf(w1, "late_night") + adjustment)
              ELSE w1
        w3 == IF isWorkHours(feedback.timestamp)
              THEN setWeight(w2, "work_hours",
                             weightOf(w2, "work_hours") + adjustment)
              ELSE w2
    IN IF features.navigationPattern = "domain-hopping"
       THEN setWeight(w3, "domain_hopping",
                      weightOf(w3, "domain_hopping") + adjustment)
       ELSE w3

\* feedbackHistory after the push and the shift of updateWithFeedback
pushFeedback(history, feedback) ==
    LET pushed == Append(history, feedback)
    IN IF Len(pushed) > FEEDBACK_LIMIT THEN Tail(pushed) ELSE pushed

EngineFrame ==
    UNCHANGED <<now, streakVars, predictorVars, probe, classifierVars,
                rewardVars, intakeVars, adaptationVars, matcherVars, usedPrompts,
                chosenPrompts>>

UpdateWithFeedback(feedback) ==
    /\ feedbackHistory' = pushFeedback(feedbackHistory, feedback)
    /\ modelWeights' = adjustWeights(modelWeights, feedback)
    /\ lastFeedback' = [ran |-> TRUE, feedback |-> feedback,
                        by |-> "updateWithFeedback"]
    /\ EngineFrame

\* ------------------------------------------------------------------------
\* FeedbackService (src/src/models/FeedbackService.ts) and
\* ClassificationManager.updateFromBehavior
\* ------------------------------------------------------------------------
FeedbackEvent(type, url, timestamp, context, dismissalCount) ==
    [type |-> type, url |-> url, timestamp |-> timestamp,
     context |-> context, dismissalCount |-> dismissalCount]

\* updateFromBehavior(url, wasProductive, context) up to its decision: its
\* own updateWithFeedback, stamped Date.now(), then the read of the entry
behaviorFeedback(url, wasProductive, context) ==
    UserFeedback(url, ~ wasProductive, now, context)

UpdateFromBehavior(url, wasProductive, context, aiClassification) ==
    LET feedback == behaviorFeedback(url, wasProductive, context)
    IN /\ feedbackHistory' = pushFeedback(feedbackHistory, feedback)
       /\ modelWeights' = adjustWeights(modelWeights, feedback)
       /\ lastFeedback' = [ran |-> TRUE, feedback |-> feedback,
                           by |-> "updateFromBehavior"]
       /\ BehaviorDecision(url, aiClassification)
       /\ UNCHANGED <<now, streakVars, predictorVars, probe, rewardVars,
                      intakeVars, adaptationVars, matcherVars, usedPrompts, chosenPrompts>>

\* the handler's own updateWithFeedback followed by updateFromBehavior, up
\* to the read of the entry
FeedbackThenBehavior(event, wasDistraction, aiClassification) ==
    LET own == UserFeedback(event.url, wasDistraction, event.timestamp,
                            event.context)
        second == behaviorFeedback(event.url, ~ wasDistraction,
                                   event.context)
        afterOwn == adjustWeights(modelWeights, own)
    IN /\ feedbackHistory' =
              pushFeedback(pushFeedback(feedbackHistory, own), second)
       /\ modelWeights' = adjustWeights(afterOwn, second)
       /\ lastFeedback' = [ran |-> TRUE, feedback |-> second,
                           by |-> event.type]
       /\ BehaviorDecision(event.url, aiClassification)
       /\ UNCHANGED <<now, streakVars, predictorVars, probe, rewardVars,
                      intakeVars, adaptationVars, matcherVars, usedPrompts, chosenPrompts>>

HandleInterventionCompleted(event, aiClassification) ==
    /\ event.type = "intervention_completed"
    /\ FeedbackThenBehavior(event, TRUE, aiClassification)

\* fewer than three dismissals: the handler does nothing
HandleInterventionDismissed(event, aiClassification) ==
    /\ event.type = "intervention_dismissed"
    /\ IF event.dismissalCount >= 3
       THEN FeedbackThenBehavior(event, FALSE, aiClassification)
       ELSE /\ lastFeedback' = [NoFeedback EXCEPT !.by = event.type]
            /\ UNCHANGED <<now, streakVars, predictorVars, probe,
                           classifierVars, rewardVars, intakeVars,
                           adaptationVars, matcherVars, usedPrompts, chosenPrompts,
                           modelWeights, feedbackHistory>>

HandleProductiveSession(event, aiClassification) ==
    /\ event.type = "session_productive"
    /\ FeedbackThenBehavior(event, FALSE, aiClassification)

HandleDistractedSession(event, aiClassification) ==
    /\ event.type = "session_distracted"
    /\ FeedbackThenBehavior(event, TRUE, aiClassification)

\* processFeedback, for the four types that carry no metadata.category
ProcessFeedback(event, aiClassification) ==
    \/ HandleInterventionCompleted(event, aiClassification)
    \/ HandleInterventionDismissed(event, aiClassification)
    \/ HandleProductiveSession(event, aiClassification)
    \/ HandleDistractedSession(event, aiClassification)

EngineInit ==
    /\ usedPrompts = [type \in ChallengeTypes |-> <<>>]
    /\ chosenPrompts = [type \in ChallengeTypes |-> <<>>]
    /\ modelWeights = initializeModel
    /\ feedbackHistory = <<>>
    /\ lastFeedback = NoFeedback

\* ------------------------------------------------------------------------
\* PatternMatcher (src/src/models/PatternMatcher.ts).  Times in minutes;
\* Date.now() reads Epoch + now.
\* ------------------------------------------------------------------------
updateInterval == 60

ThirtyDays == 30 * 24 * 60

SimilarityCallers == {1, 2}

BrowsingHistory(url, startTime, wasProductive) ==
    [url |-> url, startTime |-> startTime, wasProductive |-> wasProductive]

\* the stored history: two unproductive visits of one site within one hour
\* of the day, one visit of another site, and a visit older than 30 days
StoredHistory ==
    <<BrowsingHistory(UrlPlain, Epoch, FALSE),
      BrowsingHistory(UrlPlain, Epoch + 1, FALSE),
      BrowsingHistory(UrlCall, Epoch + 2, TRUE),
      BrowsingHistory(UrlCall, Epoch - ThirtyDays, TRUE)>>

\* StorageManager.getHistory
getHistory(start, end) ==
    SelectSeq(StoredHistory,
              LAMBDA h : h.startTime >= start /\ h.startTime <= end)

\* the key `${timeOfDay}-${dayOfWeek}-${category}` of an entry
patternKey(entry) ==
    <<extractTimeOfDay(entry.startTime - Epoch),
      extractDayOfWeek(entry.startTime - Epoch), categorizeUrl(entry.url)>>

\* the pattern map of updatePatternsIfNeeded, filtered to frequency >= 2:
\* a key's pattern takes wasDistraction from the first entry with the key
buildPatterns(history) ==
    LET keys == {patternKey(history[i]) : i \in DOMAIN history}
        indexes(key) == {i \in DOMAIN history : patternKey(history[i]) = key}
        first(key) ==
            CHOOSE i \in indexes(key) : \A j \in indexes(key) : i <= j
        pattern(key) ==
            [timeOfDay |-> key[1], dayOfWeek |-> key[2], category |-> key[3],
             navigationPattern |-> "unknown",
             wasDistraction |-> ~ history[first(key)].wasProductive,
             frequency |-> Cardinality(indexes(key))]
    IN {pattern(key) : key \in {k \in keys : Cardinality(indexes(k)) >= 2}}

IdleSimilarity == [pc |-> "idle", at |-> 0]

MatcherFrame ==
    UNCHANGED <<now, streakVars, predictorVars, probe, classifierVars,
                rewardVars, intakeVars, adaptationVars, engineVars>>

\* calculateSimilarity up to the first wait of updatePatternsIfNeeded: the
\* interval test and, if it passes, the start of the history read
CalculateSimilarityBegin(c) ==
    /\ similarityCalls[c].pc = "idle"
    /\ LET n == Epoch + now
       IN IF n - lastUpdate < updateInterval
          THEN UNCHANGED <<similarityCalls, rebuildStarts, lastUpdate>>
          ELSE /\ similarityCalls' =
                      [similarityCalls EXCEPT ![c] =
                          [pc |-> "reading", at |-> n]]
               /\ rebuildStarts' = Append(rebuildStarts, n)
               /\ UNCHANGED lastUpdate
    /\ UNCHANGED historicalPatterns
    /\ MatcherFrame

\* getHistory returns: the table is rebuilt and lastUpdate takes the time
\* the call started
GetHistoryReturns(c) ==
    /\ similarityCalls[c].pc = "reading"
    /\ LET n == similarityCalls[c].at
       IN /\ historicalPatterns' = buildPatterns(getHistory(n - ThirtyDays, n))
          /\ lastUpdate' = n
    /\ similarityCalls' = [similarityCalls EXCEPT ![c] = IdleSimilarity]
    /\ UNCHANGED rebuildStarts
    /\ MatcherFrame

MatcherInit ==
    /\ historicalPatterns = {}
    /\ lastUpdate = 0
    /\ similarityCalls = [c \in SimilarityCallers |-> IdleSimilarity]
    /\ rebuildStarts = <<>>

ServiceInit ==
    /\ ClassifierInit /\ RewardInit(0) /\ IntakeInit /\ AdaptationInit
    /\ EngineInit /\ MatcherInit

\* ------------------------------------------------------------------------
\* Inputs
\* ------------------------------------------------------------------------
Tabs == {1, 2}

SessionShapes ==
    { [s |-> 70, p |-> 40, h |-> <<UrlPlain, UrlPlain, UrlPlain>>] }

BrowsingContext(url, shape) ==
    [url |-> url, timestamp |-> now, sessionDuration |-> shape.s,
     lastProductiveActivity |-> shape.p, recentHistory |-> shape.h]

Contexts == {BrowsingContext(u, sh) : u \in Urls, sh \in SessionShapes}

AiConfidences == {900}

Classifications ==
    { [category |-> "distraction", confidence |-> 900],
      [category |-> "productive", confidence |-> 900] }

Frequencies == {"aggressive", "moderate", "minimal"}

QuietRanges == {TimeRange(22, 6), TimeRange(3, 24)}

HourBases == {2, 20}

PauseDurations == {5}

NoProbe == [applied |-> FALSE, hour |-> 0, range |-> TimeRange(0, 0),
            member |-> FALSE]

\* ------------------------------------------------------------------------
\* Specifications
\* ------------------------------------------------------------------------
PredictorInit(s) ==
    /\ lastInterventionTime = 0
    /\ interventionCooldown = DefaultCooldown
    /\ consecutiveDismissals = <<>>
    /\ manuallyPaused = FALSE
    /\ pausedUntil = 0
    /\ settings = s
    /\ tabEval = [tab \in Tabs |-> IdleEval]
    /\ lastEval = NoEval
    /\ triggered = NoTrigger
    /\ lastCall = NoCall

\* The streak state machine on its own.
Init ==
    /\ now = 0
    /\ StreakInit
    /\ PredictorInit(DEFAULT_SETTINGS)
    /\ hourBase = 12
    /\ dayBase = 3
    /\ probe = NoProbe
    /\ ServiceInit

Next ==
    \/ StartStreak
    \/ IncrementStreak
    \/ BreakStreak
    \/ RecordProductiveActivity
    \/ RecordDistraction
    \/ CheckInactivity
    \/ StreakTick

Spec == Init /\ [][Next]_vars

\* Cooldown and dismissals: navigation events of two tabs whose evaluations
\* may overlap, dismissals and completions, with learning mode switched off.
CooldownSites == {UrlPlain, UrlSub}

CooldownContexts ==
    {BrowsingContext(UrlPlain, sh) : sh \in SessionShapes}

InitCooldown ==
    /\ now = PredictorStart
    /\ StreakInit
    /\ PredictorInit([DEFAULT_SETTINGS EXCEPT
                          !.learningMode = FALSE,
                          !.preferredChallenges = <<"reflection">>])
    /\ hourBase = 12
    /\ dayBase = 3
    /\ probe = NoProbe
    /\ ServiceInit

NextCooldown ==
    \/ \E tab \in Tabs, context \in CooldownContexts :
           EvaluateBegin(tab, context, 900)
    \/ \E tab \in Tabs, classification \in Classifications,
          type \in ChallengeTypes :
           EvaluateFinish(tab, classification, type)
    \/ \E url \in CooldownSites : RecordDismissal(url)
    \/ \E url \in CooldownSites : RecordCompletion(url)
    \/ PredictorTick

SpecCooldown == InitCooldown /\ [][NextCooldown]_vars

\* The pre-checks of evaluateDistraction under changing settings and pause
\* state, one tab navigating.
InitEvaluate ==
    /\ now = PredictorStart
    /\ StreakInit
    /\ PredictorInit(DEFAULT_SETTINGS)
    /\ hourBase \in HourBases
    /\ dayBase = 3
    /\ probe = NoProbe
    /\ ServiceInit

NextEvaluate ==
    \/ \E context \in Contexts, aiConfidence \in AiConfidences :
           EvaluateBegin(1, context, aiConfidence)
    \/ \E classification \in Classifications, type \in ChallengeTypes :
           EvaluateFinish(1, classification, type)
    \/ \E enabled \in BOOLEAN : SetLearningMode(enabled)
    \/ AddToWhitelist(UrlSub)
    \/ ClearWhitelist
    \/ \E timeRange \in QuietRanges : AddQuietHours(timeRange)
    \/ ClearQuietHours
    \/ \E durationMinutes \in PauseDurations : Pause(durationMinutes)
    \/ Resume
    \/ ToggleManualPause
    \/ PredictorTick

SpecEvaluate == InitEvaluate /\ [][NextEvaluate]_vars

\* isHourInRange applied to every hour of the day and every range.
InitQuietHours ==
    /\ now = 0
    /\ StreakInit
    /\ PredictorInit(DEFAULT_SETTINGS)
    /\ hourBase = 12
    /\ dayBase = 3
    /\ ServiceInit
    /\ \E hour \in 0..23, start \in 0..23, end \in 0..23 :
           probe = [applied |-> FALSE, hour |-> hour,
                    range |-> TimeRange(start, end), member |-> FALSE]

ApplyIsHourInRange ==
    /\ ~probe.applied
    /\ probe' = [probe EXCEPT !.applied = TRUE,
                              !.member = isHourInRange(probe.hour,
                                                       probe.range)]
    /\ UNCHANGED <<now, streakVars, predictorVars, serviceVars>>

NextQuietHours == ApplyIsHourInRange

SpecQuietHours == InitQuietHours /\ [][NextQuietHours]_vars

\* Evaluations during which a collaborator fails.
InitFaults == InitCooldown

NextFaults ==
    \/ \E context \in CooldownContexts, aiConfidence \in AiConfidences :
           EvaluateBegin(1, context, aiConfidence)
    \/ \E classification \in Classifications, type \in ChallengeTypes :
           EvaluateFinish(1, classification, type)
    \/ \E fault \in Faults, classification \in Classifications,
          type \in ChallengeTypes :
           EvaluateFinishAfterFault(1, fault, classification, type)
    \/ \E frequency \in Frequencies : SetInterventionFrequency(frequency)
    \/ PredictorTick

SpecFaults == InitFaults /\ [][NextFaults]_vars

\* The user classifying two pages while behaviour feedback arrives and the
\* resolver is asked.
ClassifiedSites == {UrlPlain, UrlSub}

UserCategories == {"productive", "distraction"}

AiClassifications == {Classification("distraction", 900, "ai")}

InitClassifier == Init

NextClassifier ==
    \/ \E url \in ClassifiedSites, category \in UserCategories :
           SaveUserClassificationBegin(url, category)
    \/ \E url \in ClassifiedSites : RemoveClassificationBegin(url)
    \/ UserSaveWrite
    \/ \E url \in ClassifiedSites, ai \in AiClassifications :
           UpdateFromBehaviorCheck(url, ai)
    \/ UpdateFromBehaviorLoad
    \/ UpdateFromBehaviorWrite
    \/ \E url \in ClassifiedSites, ai \in AiClassifications :
           GetClassificationBegin(url, ai)
    \/ GetClassificationDomain

SpecClassifier == InitClassifier /\ [][NextClassifier]_vars

\* Scoring against the threshold: one tab navigating with learning mode off,
\* the frequency and the preferred challenge types changing.
ScoreShapes ==
    { [s |-> 3, p |-> 0, h |-> <<>>],
      [s |-> 70, p |-> 40, h |-> <<UrlPlain, UrlPlain, UrlPlain>>] }

ScoreContexts == {BrowsingContext(UrlPlain, sh) : sh \in ScoreShapes}

ScoreConfidences == {200, 700, 900}

ScoreClassifications ==
    { [category |-> "distraction", confidence |-> 900],
      [category |-> "productive", confidence |-> 800],
      [category |-> "neutral", confidence |-> 500] }

PreferredLists == {<<>>, <<"breathing">>, <<"intention", "quick-task">>}

InitThreshold ==
    /\ now = PredictorStart
    /\ StreakInit
    /\ PredictorInit([DEFAULT_SETTINGS EXCEPT !.learningMode = FALSE])
    /\ hourBase \in {2, 12}
    /\ dayBase = 3
    /\ probe = NoProbe
    /\ ServiceInit

NextThreshold ==
    \/ \E context \in ScoreContexts, aiConfidence \in ScoreConfidences :
           EvaluateBegin(1, context, aiConfidence)
    \/ \E classification \in ScoreClassifications, type \in ChallengeTypes :
           EvaluateFinish(1, classification, type)
    \/ \E frequency \in Frequencies : SetInterventionFrequency(frequency)
    \/ \E challenges \in PreferredLists : SetPreferredChallenges(challenges)
    \/ PredictorTick

SpecThreshold == InitThreshold /\ [][NextThreshold]_vars

\* ------------------------------------------------------------------------
\* Claims about the streak state machine
\* ------------------------------------------------------------------------
Unchanged(fields) == \A f \in fields : streakData[f] = pre.data[f]

\* C1: in every state reachable from the default StreakRecord by start,
\* increment, break, record-productive-activity, record-distraction and
\* inactivity-check, current <= longest.
C1_CurrentAtMostLongest == streakData.current <= streakData.longest

\* C2 as stated: ACTIVE with current = 4 and record-productive-activity at
\* least 5 minutes after the last update gives current = 5, multiplier still
\* 1.0, and an increment event followed by a milestone event for 5.
C2_Case ==
    /\ lastOp = "recordProductiveActivity"
    /\ pre.st = ACTIVE
    /\ pre.data.current = 4
    /\ now - pre.data.lastUpdate >= incrementThreshold

C2_Events ==
    /\ Len(emitted) = 2
    /\ emitted[1].type = "increment" /\ emitted[1].streakValue = 5
    /\ emitted[2].type = "milestone" /\ emitted[2].streakValue = 5

C2_MultiplierStaysOne ==
    C2_Case => /\ streakData.current = 5
               /\ streakData.multiplier = 10
               /\ C2_Events

\* C2 amended: in that case current becomes 5, the multiplier becomes 1.2
\* (the band for 5 <= current < 10), and an increment event followed by a
\* milestone event for 5 are emitted.
C2_MultiplierBecomesOnePointTwo ==
    C2_Case => /\ streakData.current = 5
               /\ streakData.multiplier = 12
               /\ C2_Events

C2_Witness == C2_Case /\ streakData.current = 5 /\ Len(emitted) = 2

\* C3: record-distraction in ACTIVE breaks the streak (current 0,
\* multiplier 1.0, state BROKEN, exactly one break event carrying the value
\* before the reset); in INACTIVE or BROKEN it changes nothing and emits
\* nothing.
C3_RecordDistraction ==
    lastOp = "recordDistraction" =>
        IF pre.st = ACTIVE
        THEN /\ streakData.current = 0
             /\ streakData.multiplier = 10
             /\ currentState = BROKEN
             /\ emitted = <<StreakEvent("break", pre.data.current, FALSE)>>
        ELSE /\ Snapshot = pre
             /\ emitted = <<>>

C3_Witness ==
    /\ lastOp = "recordDistraction"
    /\ pre.st = ACTIVE
    /\ pre.data.current >= 2
    /\ currentState = BROKEN

\* C4: record-productive-activity starts a streak (current 1, multiplier
\* 1.0, ACTIVE, one start event) from INACTIVE or BROKEN, increments when
\* ACTIVE and at least 5 minutes have passed since the last update, and when
\* ACTIVE with less than 5 minutes passed leaves current, longest,
\* multiplier, last-update and the state unchanged and emits nothing.
C4_RecordProductiveActivity ==
    lastOp = "recordProductiveActivity" =>
        IF pre.st \in {INACTIVE, BROKEN}
        THEN /\ streakData.current = 1
             /\ streakData.multiplier = 10
             /\ currentState = ACTIVE
             /\ emitted = <<StreakEvent("start", 1, FALSE)>>
        ELSE IF now - pre.data.lastUpdate >= incrementThreshold
        THEN /\ streakData.current = pre.data.current + 1
             /\ currentState = ACTIVE
             /\ Len(emitted) >= 1
             /\ emitted[1].type = "increment"
             /\ emitted[1].streakValue = pre.data.current + 1
        ELSE /\ Unchanged({"current", "longest", "multiplier", "lastUpdate"})
             /\ currentState = pre.st
             /\ emitted = <<>>

C4_Witness ==
    /\ lastOp = "recordProductiveActivity"
    /\ pre.st = ACTIVE
    /\ now - pre.data.lastUpdate = incrementThreshold
    /\ streakData.current = pre.data.current + 1

C4_WitnessNoOp ==
    /\ lastOp = "recordProductiveActivity"
    /\ pre.st = ACTIVE
    /\ now - pre.data.lastUpdate = 4
    /\ emitted = <<>>

\* C5: an inactivity check breaks the streak (BROKEN, current 0, multiplier
\* 1.0) when the state is ACTIVE and at least 30 minutes have passed since
\* the last recorded activity; otherwise the check changes nothing.
C5_CheckInactivity ==
    lastOp = "checkInactivity" =>
        IF pre.st = ACTIVE /\ now - pre.act >= inactivityThreshold
        THEN /\ currentState = BROKEN
             /\ streakData.current = 0
             /\ streakData.multiplier = 10
        ELSE /\ Snapshot = pre
             /\ emitted = <<>>

C5_Witness ==
    /\ lastOp = "checkInactivity"
    /\ pre.st = ACTIVE
    /\ now - pre.act = inactivityThreshold
    /\ currentState = BROKEN

C5_WitnessJustUnder ==
    /\ lastOp = "checkInactivity"
    /\ pre.st = ACTIVE
    /\ now - pre.act = 29
    /\ currentState = ACTIVE

\* ------------------------------------------------------------------------
\* Claims about the cooldown and the dismissal counts
\* ------------------------------------------------------------------------

\* C6: when a site that already has 2 consecutive dismissals receives a 3rd
\* record-dismissal the cooldown duration becomes 15 minutes; a following
\* record-completion for that site sets the cooldown duration back to 5
\* minutes and deletes that site's dismissal count.
C6_EscalateThenReset ==
    /\ (lastCall.op = "recordDismissal" /\ lastCall.count = 2) =>
           /\ interventionCooldown = EscalatedCooldown
           /\ getDismissalCount(lastCall.url) = 3
    /\ (lastCall.op = "recordCompletion" /\ lastCall.count >= 3) =>
           /\ interventionCooldown = DefaultCooldown
           /\ lastCall.url \notin DOMAIN consecutiveDismissals

C6_Witness ==
    /\ lastCall.op = "recordCompletion"
    /\ lastCall.count = 3
    /\ lastCall.cooldown = EscalatedCooldown
    /\ interventionCooldown = DefaultCooldown
    /\ lastCall.url \notin DOMAIN consecutiveDismissals

C6_WitnessThirdDismissal ==
    /\ lastCall.op = "recordDismissal"
    /\ lastCall.count = 2
    /\ lastCall.cooldown = DefaultCooldown
    /\ interventionCooldown = EscalatedCooldown

\* C7: once some site has accumulated at least 3 consecutive dismissals the
\* cooldown duration stays 15 minutes until a completion is recorded for
\* that same site; a record-completion for a different site does not reset
\* it.  A site's count stays at 3 or more exactly until its completion, so
\* the cooldown is 15 minutes whenever some site's count is 3 or more.
C7_EscalationHeldUntilSameSiteCompletes ==
    (\E url \in DOMAIN consecutiveDismissals :
         consecutiveDismissals[url] >= 3)
        => interventionCooldown = EscalatedCooldown

\* C8: after an intervention is recorded at time t no further intervention
\* is triggered before t + cooldown-duration, whatever the interleaving of
\* the tabs' evaluations.
C8_NoInterventionInsideCooldown ==
    triggered.kind = "intervention" =>
        triggered.at - triggered.previous >= triggered.cooldown

\* ------------------------------------------------------------------------
\* Claims about the pre-checks of evaluateDistraction
\* ------------------------------------------------------------------------
PreChecks == <<"pause", "quiet hours", "whitelist", "learning mode",
               "cooldown">>

Applies(check, url) ==
    CASE check = "pause" ->
             \/ manuallyPaused
             \/ now < pausedUntil
             \/ isVideoCall(url)
             \/ isPresentation(url)
      [] check = "quiet hours" -> isInQuietHours
      [] check = "whitelist" -> isWhitelisted(url)
      [] check = "learning mode" -> settings.learningMode
      [] check = "cooldown" -> isInCooldown

FirstApplicable(url) ==
    LET applicable == {i \in DOMAIN PreChecks : Applies(PreChecks[i], url)}
    IN IF applicable = {} THEN "none"
       ELSE PreChecks[CHOOSE i \in applicable :
                          \A j \in applicable : i <= j]

\* The check a reason text speaks of.
CheckOfReason(reason) ==
    CASE reason \in {<<"Manually paused">>, <<"Paused for more minutes">>}
             -> "pause"
      [] reason = <<"Quiet hours - interventions disabled">> -> "quiet hours"
      [] reason = <<"Site is whitelisted">> -> "whitelist"
      [] reason = <<"Learning mode - observing behavior">> -> "learning mode"
      [] reason = <<"Intervention cooldown active">> -> "cooldown"
      [] OTHER -> "none"

Evaluated == lastEval.kind \in {"shortcut", "pending"}

ShortCircuited ==
    /\ lastEval.kind = "shortcut"
    /\ lastEval.result.isDistraction = FALSE
    /\ lastEval.result.suggestedChallenge = NoChallenge

\* C9: evaluate returns is-distraction = false with no suggested challenge
\* whenever any pre-check applies (pause active or video-call/presentation
\* URL, hour inside a quiet-hour range, whitelisted URL, learning mode on,
\* cooldown active), and the reason reported is that of the first
\* applicable check in the order pause, quiet hours, whitelist, learning
\* mode, cooldown.
C9_FirstApplicableReason ==
    (Evaluated /\ FirstApplicable(lastEval.url) # "none") =>
        /\ ShortCircuited
        /\ CheckOfReason(lastEval.result.reason)
               = FirstApplicable(lastEval.url)

\* What does hold: the short circuit itself, and the reason of the first
\* applicable check except when the pause comes from the URL alone, where
\* getPauseStatus answers 'Not paused'.
C9_ShortCircuitOnly ==
    (Evaluated /\ FirstApplicable(lastEval.url) # "none") =>
        /\ ShortCircuited
        /\ IF ~manuallyPaused /\ ~(now < pausedUntil)
              /\ FirstApplicable(lastEval.url) = "pause"
           THEN lastEval.result.reason = <<"Not paused">>
           ELSE CheckOfReason(lastEval.result.reason)
                    = FirstApplicable(lastEval.url)

C9_WitnessUrlPause ==
    /\ lastEval.kind = "shortcut"
    /\ isVideoCall(lastEval.url)
    /\ ~manuallyPaused
    /\ ~(now < pausedUntil)
    /\ lastEval.result.reason = <<"Not paused">>

C9_WitnessWhitelistBeforeLearning ==
    /\ lastEval.kind = "shortcut"
    /\ FirstApplicable(lastEval.url) = "whitelist"
    /\ settings.learningMode
    /\ isInCooldown

C9_WitnessPassed ==
    /\ lastEval.kind = "pending"
    /\ FirstApplicable(lastEval.url) = "none"

\* ------------------------------------------------------------------------
\* Claims about quiet hours
\* ------------------------------------------------------------------------
\* The hours met walking forward from range.start through midnight to
\* range.end.
WrappedInterval(range) ==
    {(range.start + k) % 24 : k \in 0..((range.end - range.start + 24) % 24)}

\* C10: for every hour 0-23 and every range whose end is before its start
\* the hour is a member exactly when it lies on the wrapped interval from
\* start forward through midnight to end; {start: 22, end: 6} contains
\* hours 23 and 2 and does not contain hour 12.
C10_Wraparound ==
    (probe.applied /\ probe.range.end < probe.range.start) =>
        /\ probe.member <=> probe.hour \in WrappedInterval(probe.range)
        /\ probe.range = TimeRange(22, 6) =>
               /\ probe.hour \in {23, 2} => probe.member
               /\ probe.hour = 12 => ~probe.member

C10_Witness ==
    /\ probe.applied
    /\ probe.range = TimeRange(22, 6)
    /\ probe.hour = 2
    /\ probe.member

C10_WitnessOutside ==
    /\ probe.applied
    /\ probe.range = TimeRange(22, 6)
    /\ probe.hour = 12
    /\ ~probe.member

\* ------------------------------------------------------------------------
\* Claims about scoring against the threshold
\* ------------------------------------------------------------------------
\* The thresholds as the specification states them, in units of 1/10000.
StatedThreshold(frequency) ==
    CASE frequency = "aggressive" -> 4000
      [] frequency = "moderate" -> 6000
      [] frequency = "minimal" -> 8000

Scored == lastEval.kind = "scored"

\* C11: when no pre-check applies, evaluate flags a distraction exactly
\* when the fused score is at least the threshold of the user's
\* intervention frequency (aggressive 0.4, moderate 0.6, minimal 0.8), and
\* every flagged assessment carries a suggested challenge of one of the
\* four types; a score of 0.55 is not flagged under moderate and is flagged
\* under aggressive.
C11_FlaggedAtThreshold ==
    Scored =>
        LET result == lastEval.result
        IN /\ result.isDistraction
                  <=> result.confidence >= StatedThreshold(lastEval.frequency)
           /\ result.isDistraction =>
                  result.suggestedChallenge \in ChallengeTypes
           /\ ~result.isDistraction =>
                  result.suggestedChallenge = NoChallenge
           /\ result.confidence = 5500 =>
                  /\ lastEval.frequency = "moderate" => ~result.isDistraction
                  /\ lastEval.frequency = "aggressive" => result.isDistraction

C11_Witness ==
    /\ Scored
    /\ lastEval.result.confidence = 5500
    /\ lastEval.frequency = "aggressive"
    /\ lastEval.result.isDistraction
    /\ lastEval.result.suggestedChallenge \in ChallengeTypes

C11_WitnessModerate ==
    /\ Scored
    /\ lastEval.result.confidence = 5500
    /\ lastEval.frequency = "moderate"
    /\ ~lastEval.result.isDistraction

C11_WitnessAtThreshold ==
    /\ Scored
    /\ lastEval.result.confidence = 6000
    /\ lastEval.frequency = "moderate"
    /\ lastEval.result.isDistraction

\* ------------------------------------------------------------------------
\* Claims about failures of collaborators
\* ------------------------------------------------------------------------
AfterFault == "fault" \in DOMAIN lastEval

\* C12: evaluate never raises: when a collaborator it uses fails (settings
\* read, storage read of a site classification, classification or challenge
\* generation) the call still returns an assessment with is-distraction =
\* false and an explanatory reason instead of propagating the error.
C12_FailureDegradesToNoDistraction ==
    AfterFault =>
        /\ lastEval.kind # "raised"
        /\ lastEval.result.isDistraction = FALSE
        /\ lastEval.result.reason # <<>>

\* The two ways the code departs from it.
C12_NeverRaises == AfterFault => lastEval.kind # "raised"

C12_NotFlaggedAfterFailedRead ==
    (AfterFault /\ lastEval.fault = "storage read") =>
        lastEval.result.isDistraction = FALSE

\* ------------------------------------------------------------------------
\* Claims about the classification resolver
\* ------------------------------------------------------------------------
\* C13: after the user classifies a URL every later resolver call for that
\* URL returns that classification with confidence 1.0 and source "user",
\* whatever the AI predicts and whatever behaviour-feedback updates are
\* processed afterwards or concurrently with the save, until the user
\* removes or replaces the classification.
C13_UserClassificationWins ==
    lastResolve.choice # "none" =>
        lastResolve.result = Classification(lastResolve.choice, 1000, "user")

C13_WitnessReturned ==
    /\ lastResolve.choice = "productive"
    /\ lastResolve.result = Classification("productive", 1000, "user")

\* The reward system: award calls of two callers, which interleave at their
\* waits, starting from the progress an earlier run stored.
StoredTotals == {0, 900, 990, 29900}

MilestoneValues == {5, 250}

SessionMinutes == {4, 1000}

InitRewards ==
    /\ now = 0
    /\ StreakInit
    /\ PredictorInit(DEFAULT_SETTINGS)
    /\ hourBase = 12
    /\ dayBase = 3
    /\ probe = NoProbe
    /\ ClassifierInit
    /\ IntakeInit
    /\ AdaptationInit
    /\ EngineInit
    /\ MatcherInit
    /\ \E totalPoints \in StoredTotals : RewardInit(totalPoints)

NextRewards ==
    \/ awardCounts.started < MaxAwards
           /\ \E c \in AwardCallers : awardInterventionPoints(c)
    \/ awardCounts.started < MaxAwards
           /\ \E c \in AwardCallers, streakValue \in MilestoneValues :
                  awardStreakMilestone(c, streakValue)
    \/ awardCounts.started < MaxAwards
           /\ \E c \in AwardCallers : awardPersonalBest(c)
    \/ awardCounts.started < MaxAwards
           /\ \E c \in AwardCallers : awardDailyGoal(c)
    \/ awardCounts.started < MaxAwards
           /\ \E c \in AwardCallers, durationMinutes \in SessionMinutes :
                  awardProductiveSession(c, durationMinutes)
    \/ \E c \in AwardCallers : ProductiveSessionPoints(c)
    \/ \E c \in AwardCallers : AddPointsAfterLevelAchievement(c)
    \/ \E c \in AwardCallers : AddPointsAfterLevelUp(c)
    \/ \E c \in AwardCallers : AfterAddPoints(c)
    \/ \E c \in AwardCallers : AfterUnlock(c)
    \/ RewardTick

SpecRewards == InitRewards /\ [][NextRewards]_vars

\* C14: when an award call returns, the level is the one whose threshold the
\* total has reached and whose successor it has not, the points to the next
\* level are the next threshold minus the total, or 0 on level 10, and a
\* total of 950 is level 4 with 50 points to go.
LevelOfTotal(progress) ==
    /\ progress.level \in 1..10
    /\ LEVEL_THRESHOLDS[progress.level] <= progress.totalPoints
    /\ progress.level < 10 =>
           progress.totalPoints < LEVEL_THRESHOLDS[progress.level + 1]
    /\ progress.pointsToNextLevel =
           IF progress.level = 10 THEN 0
           ELSE LEVEL_THRESHOLDS[progress.level + 1] - progress.totalPoints
    /\ progress.totalPoints = 950 =>
           progress.level = 4 /\ progress.pointsToNextLevel = 50

C14_LevelAndPointsToNext ==
    [][awardCounts'.completed > awardCounts.completed
           => LevelOfTotal(userProgress')]_vars

\* The same restricted to the states in which no award call is in flight.
Quiescent == \A c \in AwardCallers : awardOps[c].pc = "idle"

C14_WhenNoCallInFlight ==
    (Quiescent /\ awardCounts.completed > 0) => LevelOfTotal(userProgress)

C14_Witness ==
    /\ Quiescent
    /\ awardCounts.completed > 0
    /\ userProgress.totalPoints = 950
    /\ userProgress.level = 4
    /\ userProgress.pointsToNextLevel = 50

C14_WitnessLevelTen ==
    /\ Quiescent
    /\ awardCounts.completed > 0
    /\ userProgress.level = 10
    /\ userProgress.pointsToNextLevel = 0

C14_WitnessLevelUp ==
    /\ Quiescent
    /\ awardCounts.completed > 0
    /\ userProgress.totalPoints = 1000
    /\ userProgress.level = 5

C15_WitnessInterleaved ==
    /\ awardOps[1].kind = "streakMilestone" /\ awardOps[1].arg = 5
    /\ awardOps[1].pc = "unlocking"
    /\ awardOps[2].kind = "streakMilestone" /\ awardOps[2].arg = 5
    /\ awardOps[2].pc = "saving"

\* Intervention completions only: award-intervention calls of two callers
\* in a run that starts without stored progress.
InitInterventions ==
    /\ now = 0
    /\ StreakInit
    /\ PredictorInit(DEFAULT_SETTINGS)
    /\ hourBase = 12
    /\ dayBase = 3
    /\ probe = NoProbe
    /\ ServiceInit

NextInterventions ==
    \/ awardCounts.started < MaxInterventions
           /\ \E c \in AwardCallers : awardInterventionPoints(c)
    \/ \E c \in AwardCallers : AddPointsAfterLevelAchievement(c)
    \/ \E c \in AwardCallers : AddPointsAfterLevelUp(c)
    \/ \E c \in AwardCallers : AfterAddPoints(c)
    \/ \E c \in AwardCallers : AfterUnlock(c)
    \/ RewardTick

SpecInterventions == InitInterventions /\ [][NextInterventions]_vars

\* C16: the achievement of count N is unlocked exactly when N
\* award-intervention calls have completed or are completing (counted and
\* waiting for the achievement to be saved); with no call in flight that is
\* exactly when N calls have completed.
InterventionAchievements ==
    {<<1, "first_intervention">>, <<10, "interventions_10">>,
     <<50, "interventions_50">>, <<100, "interventions_100">>}

Completing ==
    {c \in AwardCallers :
         awardOps[c].kind = "intervention" /\ awardOps[c].pc = "unlocking"}

C16_UnlockedExactlyAtCount ==
    \A a \in InterventionAchievements :
        a[2] \in Unlocked(userProgress)
            <=> awardCounts.interventions + Cardinality(Completing) >= a[1]

C16_Witness ==
    /\ Quiescent
    /\ awardCounts.interventions = 10
    /\ "interventions_10" \in Unlocked(userProgress)
    /\ "interventions_50" \notin Unlocked(userProgress)

C16_WitnessBelow ==
    /\ Quiescent
    /\ awardCounts.interventions = 49
    /\ "interventions_50" \notin Unlocked(userProgress)

C16_WitnessHundred ==
    /\ Quiescent
    /\ awardCounts.interventions = 100
    /\ "interventions_100" \in Unlocked(userProgress)

C16_WitnessInterleaved ==
    /\ awardCounts.interventions = 9
    /\ awardOps[1].pc = "unlocking"
    /\ awardOps[2].pc = "saving"
    /\ "interventions_10" \in Unlocked(userProgress)

\* Activity intake: events of the content scripts arrive while the queue is
\* being processed, and a write of an event may fail.
SoundContext ==
    ActivityContext(href(UrlPlain), <<"t">>, Epoch + now, 12, 3,
                    <<href(UrlPlain)>>, 70, 40)

SoundEvents ==
    {ActivityEvent(href(UrlPlain), Epoch + now, "navigation", <<>>,
                   SoundContext),
     ActivityEvent(href(UrlSub), Epoch + now, "click", <<3>>, SoundContext)}

BrokenEvents ==
    {ActivityEvent(UrlPlain.host, Epoch + now, "navigation", <<>>,
                   SoundContext),
     ActivityEvent(href(UrlPlain), 0, "navigation", <<>>,
                   SoundContext),
     ActivityEvent(href(UrlPlain), Epoch + now + OneYear + 1, "click",
                   <<>>, SoundContext),
     ActivityEvent(href(UrlPlain), Epoch + now, "hover", <<>>,
                   SoundContext),
     ActivityEvent(href(UrlPlain), Epoch + now, "scroll", <<0 - 1>>,
                   SoundContext),
     ActivityEvent(href(UrlPlain), Epoch + now, "navigation", <<>>,
                   [SoundContext EXCEPT !.title = <<>>]),
     ActivityEvent(href(UrlPlain), Epoch + now, "navigation", <<>>,
                   [SoundContext EXCEPT !.timeOfDay = 24]),
     ActivityEvent(href(UrlPlain), Epoch + now, "navigation", <<>>,
                   [SoundContext EXCEPT !.recentHistory = <<UrlSub.host>>]),
     ActivityEvent(href(UrlPlain), Epoch + now, "navigation", <<>>,
                   [SoundContext EXCEPT !.sessionDuration = 0 - 1])}

TabIds == {0, 1}

InitIntake ==
    /\ now = 0
    /\ StreakInit
    /\ PredictorInit(DEFAULT_SETTINGS)
    /\ hourBase = 12
    /\ dayBase = 3
    /\ probe = NoProbe
    /\ ServiceInit

NextIntake ==
    \/ Len(accepted) < MaxEvents
           /\ \E event \in SoundEvents \cup BrokenEvents, tabId \in TabIds :
                  HandleActivityEvent(event, tabId)
    \/ \E ok \in BOOLEAN : SaveActivityReturns(ok)
    \/ IntakeTick

SpecIntake == InitIntake /\ [][NextIntake]_vars

\* C17: the accepted events are, in arrival order, the saved ones followed
\* by the ones still to be saved (the batch in hand, then the queue): a
\* failed write puts its event back at the front, none is dropped, and they
\* are saved in arrival order.
ToBeSaved ==
    (IF drain.pc = "saving" THEN drain.batch ELSE <<>>) \o activityQueue

C17_RequeuedAtFrontNoneDropped ==
    accepted = savedActivities \o ToBeSaved

\* a write has failed and events arrived behind the failed one
C17_WitnessRequeued ==
    /\ drain.pc = "saving"
    /\ Len(savedActivities) < Len(accepted)
    /\ Len(savedActivities) + Len(ToBeSaved) = Len(accepted)
    /\ Len(ToBeSaved) >= 2

\* The saved events are a prefix of the accepted ones with gaps: what is
\* saved is saved in arrival order.
IsSubsequence(sub, seq) ==
    \E f \in [DOMAIN sub -> DOMAIN seq] :
        /\ \A i \in DOMAIN sub : sub[i] = seq[f[i]]
        /\ \A i, j \in DOMAIN sub : i < j => f[i] < f[j]

C17_SavedInArrivalOrder == IsSubsequence(savedActivities, accepted)

\* C18: an event that fails validation is rejected with its errors, and the
\* rejecting call changes nothing: not the queue, the session, the stored
\* activities, the processing in hand, the cooldown and intervention state,
\* and it calls for no evaluation.
C18_RejectedWithoutEffect ==
    [][lastIntake'.outcome # "none"
           => /\ (lastIntake'.outcome = "rejected"
                      <=> validateActivityEvent(lastIntake'.event) # {})
              /\ lastIntake'.outcome = "rejected"
                     => /\ lastIntake'.errors # {}
                        /\ UNCHANGED <<activityQueue, sessionState,
                                       processingQueue, drain,
                                       savedActivities, accepted, checksDue,
                                       predictorVars, streakVars,
                                       classifierVars, rewardVars>>]_vars

\* a negative duration rejected while the queue is being processed
C18_Witness ==
    /\ lastIntake.outcome = "rejected"
    /\ lastIntake.event.duration # <<>>
    /\ lastIntake.event.duration[1] < 0
    /\ <<"Duration cannot be negative">> \in lastIntake.errors
    /\ processingQueue
    /\ activityQueue # <<>>

C18_WitnessContext ==
    /\ lastIntake.outcome = "rejected"
    /\ lastIntake.event.context.title = <<>>
    /\ <<"Context", "Title cannot be empty">> \in lastIntake.errors
    /\ sessionState.activityCount = 0

C18_WitnessAccepted ==
    /\ lastIntake.outcome = "accepted"
    /\ lastIntake.event.eventType = "navigation"
    /\ checksDue # <<>>
    /\ sessionState.currentUrl = lastIntake.event.url

\* Dismissals and completions of four URLs over an hour and a minute.
AdaptedUrls == 1..4

InitAdaptation ==
    /\ now = 0
    /\ StreakInit
    /\ PredictorInit([DEFAULT_SETTINGS EXCEPT
                          !.interventionFrequency = "aggressive"])
    /\ hourBase = 12
    /\ dayBase = 3
    /\ probe = NoProbe
    /\ ServiceInit

NextAdaptation ==
    \/ Len(dismissalLog) < MaxRecorded
           /\ \E url \in AdaptedUrls : RecordAdaptationDismissal(url)
    \/ ExecuteStrategySettings
    \/ \E url \in AdaptedUrls : RecordAdaptationCompletion(url)
    \/ difficultyLevel < MaxDifficulty /\ RaiseDifficulty
    \/ IsHighDismissalRate
    \/ AdaptationTick

SpecAdaptation == InitAdaptation /\ [][NextAdaptation]_vars

\* Many URLs, numbered in the order of their first dismissal: the next URL
\* is dismissed, or the one dismissed last completes its challenge and is
\* dismissed again.
InitHistoryLimit == InitAdaptation

NextHistoryLimit ==
    \/ Len(dismissalLog) < MaxUrls
           /\ \E url \in 1..MaxUrls :
                  /\ url \notin DOMAIN dismissedSince
                  /\ \A u \in 1..(url - 1) : u \in DOMAIN dismissedSince
                  /\ RecordAdaptationDismissal(url)
    \/ /\ dismissalHistory # <<>>
       /\ RecordAdaptationCompletion(
              dismissalHistory[Len(dismissalHistory)].url)
    \/ IsHighDismissalRate

SpecHistoryLimit == InitHistoryLimit /\ [][NextHistoryLimit]_vars

\* C19: there is at most one record per URL, a URL has a record exactly
\* when it was dismissed since its last completion, and the record's
\* consecutive count is the number of those dismissals; so a record goes
\* only with a completion of its own URL.
C19_OneRecordPerDismissedUrl ==
    /\ \A i, j \in DOMAIN dismissalHistory :
           dismissalHistory[i].url = dismissalHistory[j].url => i = j
    /\ {dismissalHistory[i].url : i \in DOMAIN dismissalHistory}
           = DOMAIN dismissedSince
    /\ \A i \in DOMAIN dismissalHistory :
           dismissalHistory[i].consecutiveCount
               = dismissedSince[dismissalHistory[i].url]

\* a URL dismissed again after its completion has a record counting one
C19_WitnessRestarted ==
    /\ Len(dismissalLog) = 4
    /\ 1 \in DOMAIN dismissedSince
    /\ dismissedSince[1] = 1
    /\ adaptationDismissalCount(dismissalHistory, 1) = 1
    /\ 2 \in DOMAIN dismissedSince
    /\ adaptationDismissalCount(dismissalHistory, 2) = 2

\* C20: isHighDismissalRate answers true exactly when more than three
\* dismissals were recorded in the last hour, whatever their URLs.
DismissalsInLastHour ==
    Cardinality({i \in DOMAIN dismissalLog :
                     dismissalLog[i] >= now - OneHour})

C20_HighRateCountsEveryDismissal ==
    lastRate.asked => (lastRate.high <=> DismissalsInLastHour > 3)

\* four URLs dismissed within the hour: the rate is reported high
C20_WitnessHigh ==
    /\ lastRate.asked
    /\ lastRate.high
    /\ DismissalsInLastHour > 3

\* the dismissals are more than an hour old: the rate is not high
C20_WitnessExpired ==
    /\ lastRate.asked
    /\ ~lastRate.high
    /\ Len(dismissalLog) > 3
    /\ DismissalsInLastHour = 0

\* ------------------------------------------------------------------------
\* Whitelist suggestions: four pages are dismissed and completed, sites are
\* whitelisted, and the suggestion query runs when the handler of a
\* dismissal finds the dismissal rate high.
\* ------------------------------------------------------------------------
MaxSuggestDismissals == 13

WhitelistedPages == {UrlPlain}

InitSuggest ==
    /\ now = 0
    /\ StreakInit
    /\ PredictorInit(DEFAULT_SETTINGS)
    /\ hourBase = 12
    /\ dayBase = 3
    /\ probe = NoProbe
    /\ ServiceInit

NextSuggest ==
    \/ /\ Len(dismissalLog) < MaxSuggestDismissals
       /\ strategiesPending = <<>>
       /\ \E url \in AdaptedUrls : RecordAdaptationDismissal(url)
    \/ ExecuteStrategySettings
    \/ \E url \in AdaptedUrls :
           /\ url \in DOMAIN dismissedSince
           /\ RecordAdaptationCompletion(url)
    \/ \E page \in WhitelistedPages : AddToWhitelist(page)
    \/ isHighDismissalRate(dismissalHistory) /\ SuggestWhitelistAdditions

SpecSuggest == InitSuggest /\ [][NextSuggest]_vars

\* the consecutive count of the record of a URL in a history
countIn(history, url) == adaptationDismissalCount(history, url)

\* the URLs of a history that qualify for a suggestion
Qualifying(history, whitelist) ==
    {history[i].url : i \in {j \in DOMAIN history :
        /\ history[j].consecutiveCount >= 5
        /\ ~suggestionWhitelisted(history[j].url, whitelist)}}

\* C21: the suggestion query returns at most five sites, each of them not
\* whitelisted and dismissed at least five times, all of the qualifying
\* sites when there are at most five, in descending order of their
\* dismissal counts, and no site left out has a higher count than one
\* returned.
C21_TopFiveMostDismissedFirst ==
    lastSuggestions.asked =>
        LET urls == lastSuggestions.urls
            history == lastSuggestions.history
            qualifying == Qualifying(history, lastSuggestions.whitelist)
        IN /\ Len(urls) <= 5
           /\ \A i \in DOMAIN urls : urls[i] \in qualifying
           /\ \A i, j \in DOMAIN urls : i # j => urls[i] # urls[j]
           /\ Len(urls) = IF Cardinality(qualifying) < 5
                          THEN Cardinality(qualifying) ELSE 5
           /\ \A i, j \in DOMAIN urls :
                  i < j => countIn(history, urls[i]) >= countIn(history, urls[j])
           /\ \A u \in qualifying :
                  (\A i \in DOMAIN urls : urls[i] # u) =>
                      \A i \in DOMAIN urls :
                          countIn(history, urls[i]) >= countIn(history, u)

\* what does hold: the sites returned are the qualifying ones, in the
\* order of their records in the history
C21_QualifyingInHistoryOrder ==
    lastSuggestions.asked =>
        LET urls == lastSuggestions.urls
            history == lastSuggestions.history
        IN /\ Len(urls) <= 5
           /\ {urls[i] : i \in DOMAIN urls}
                  = Qualifying(history, lastSuggestions.whitelist)
           /\ \A i, j \in DOMAIN urls :
                  i < j => findIndex(history, urls[i])
                               < findIndex(history, urls[j])

\* two sites are suggested and the one dismissed less often comes first
C21_WitnessLeastDismissedFirst ==
    /\ lastSuggestions.asked
    /\ Len(lastSuggestions.urls) = 2
    /\ countIn(lastSuggestions.history, lastSuggestions.urls[1])
           < countIn(lastSuggestions.history, lastSuggestions.urls[2])

\* a site dismissed five times is left out because it is whitelisted
C21_WitnessWhitelisted ==
    /\ lastSuggestions.asked
    /\ lastSuggestions.urls = <<>>
    /\ countIn(lastSuggestions.history, 1) >= 5
    /\ lastSuggestions.whitelist # <<>>

\* ------------------------------------------------------------------------
\* The frequency setting under adaptation: two pages are dismissed and
\* completed while the user changes the frequency setting.
\* ------------------------------------------------------------------------
MaxLoosenDismissals == 11

LoosenUrls == {1, 2}

InitLoosen == InitSuggest

NextLoosen ==
    \/ /\ Len(dismissalLog) < MaxLoosenDismissals
       /\ \E url \in LoosenUrls : RecordAdaptationDismissal(url)
    \/ ExecuteStrategySettings
    \/ \E url \in LoosenUrls :
           /\ url \in DOMAIN dismissedSince
           /\ RecordAdaptationCompletion(url)
    \/ \E frequency \in Frequencies :
           /\ frequency # settings.interventionFrequency
           /\ SetInterventionFrequency(frequency)

SpecLoosen == InitLoosen /\ [][NextLoosen]_vars

\* a step of the adaptation: a dismissal or completion is recorded, or a
\* strategy is executed
AdaptationStep ==
    \/ dismissalHistory' # dismissalHistory
    \/ strategiesPending' # strategiesPending
    \/ dismissalLog' # dismissalLog

\* C22: no step of the adaptation tightens the frequency setting: it
\* never takes it from minimal to moderate or aggressive, nor from
\* moderate to aggressive.
C22_AdaptationOnlyLoosens ==
    [][AdaptationStep =>
           frequencyOrder[settings'.interventionFrequency]
               <= frequencyOrder[settings.interventionFrequency]]_vars

\* the tenth dismissal of a page has taken the setting to minimal
C22_Witness ==
    /\ settings.interventionFrequency = "minimal"
    /\ strategiesPending = <<>>
    /\ \E url \in LoosenUrls :
           adaptationDismissalCount(dismissalHistory, url) >= 10

\* the user has set minimal and the strategy of a fifth dismissal, which
\* names moderate, was executed without changing it
C22_WitnessKeptMinimal ==
    /\ settings.interventionFrequency = "minimal"
    /\ strategiesPending = <<>>
    /\ Len(dismissalLog) = 5
    /\ \E url \in LoosenUrls :
           adaptationDismissalCount(dismissalHistory, url) = 5

\* the fifth dismissal of a page has taken aggressive to moderate
C22_WitnessModerate ==
    /\ settings.interventionFrequency = "moderate"
    /\ strategiesPending = <<>>
    /\ Len(dismissalLog) = 5
    /\ \E url \in LoosenUrls :
           adaptationDismissalCount(dismissalHistory, url) = 5

\* ------------------------------------------------------------------------
\* Quiet-hour ranges: ranges over a few hours of the day, plain, of one
\* hour, crossing midnight and out of range, are offered in any order.
\* ------------------------------------------------------------------------
MaxQuietRanges == 3

OfferedHours == {0 - 1, 0, 6, 7, 22, 23, 24}

OfferedRanges == {TimeRange(s, e) : s \in OfferedHours, e \in OfferedHours}

InitQuietRanges == InitSuggest

NextQuietRanges ==
    \/ /\ Len(settings.quietHours) < MaxQuietRanges
       /\ \E timeRange \in OfferedRanges : AddQuietHours(timeRange)
    \/ ClearQuietHours

SpecQuietRanges == InitQuietRanges /\ [][NextQuietRanges]_vars

\* the configured ranges an hour belongs to
RangesOfHour(hour) ==
    {i \in DOMAIN settings.quietHours :
         isHourInRange(hour, settings.quietHours[i])}

\* C23: no hour 0-23 belongs to two configured quiet-hour ranges, and
\* every configured range has its hours in 0-23.
C23_NoHourInTwoRanges ==
    /\ \A hour \in 0..23 : Cardinality(RangesOfHour(hour)) <= 1
    /\ \A i \in DOMAIN settings.quietHours :
           /\ settings.quietHours[i].start \in 0..23
           /\ settings.quietHours[i].end \in 0..23

\* a range crossing midnight and the range of the hours between its ends
\* are configured together and cover the day
C23_Witness ==
    /\ Len(settings.quietHours) = 2
    /\ settings.quietHours[1] = TimeRange(22, 6)
    /\ settings.quietHours[2] = TimeRange(7, 7)
    /\ RangesOfHour(23) = {1}
    /\ RangesOfHour(7) = {2}

\* three ranges, the last crossing midnight
C23_WitnessThree ==
    /\ Len(settings.quietHours) = 3
    /\ settings.quietHours[3].end < settings.quietHours[3].start

\* ------------------------------------------------------------------------
\* Overlapping streak calls: two callers record productive activity and
\* distractions and the inactivity check runs, each call starting while
\* another may still wait for its save.
\* ------------------------------------------------------------------------
InitOverlap == InitSuggest

NextOverlap ==
    \/ \E c \in StreakCallers : RecordProductiveActivityCall(c)
    \/ \E c \in StreakCallers : RecordDistractionCall(c)
    \/ \E c \in StreakCallers : CheckInactivityCall(c)
    \/ \E c \in StreakCallers : SaveStreakReturns(c)
    \/ OverlapTick

SpecOverlap == InitOverlap /\ [][NextOverlap]_vars

\* C24: a step that raises current either starts a streak, from a state
\* that is not ACTIVE and at 1, or increments it by one, from ACTIVE and
\* with at least 5 minutes gone since the last update and since the start
\* or increment before it.
C24_IncrementGated ==
    [][streakData'.current > streakData.current =>
           \/ /\ currentState # ACTIVE
              /\ streakData'.current = 1
              /\ lastGain' = [type |-> "start", at |-> now]
           \/ /\ currentState = ACTIVE
              /\ streakData'.current = streakData.current + 1
              /\ now - streakData.lastUpdate >= 5
              /\ lastGain.type # "none"
              /\ now - lastGain.at >= 5
              /\ lastGain' = [type |-> "increment", at |-> now]]_vars

\* a second increment, made while the call of the first still waits for
\* its save
C24_Witness ==
    /\ streakData.current = 3
    /\ lastGain = [type |-> "increment", at |-> 10]
    /\ streakCalls[1].pc = "saving"
    /\ streakCalls[1].type = "increment"
    /\ streakCalls[2].pc = "saving"
    /\ streakCalls[2].type = "increment"

\* a call overlapping a start four minutes later leaves current at 1
C24_WitnessTooSoon ==
    /\ now = 4
    /\ streakData.current = 1
    /\ lastGain = [type |-> "start", at |-> 0]
    /\ streakCalls[1].pc = "saving"
    /\ lastOp = "recordProductiveActivity"
    /\ streakCalls[2].pc = "idle"

\* ------------------------------------------------------------------------
\* Claims about the drain of the activity queue
\* ------------------------------------------------------------------------
\* A step in which the write of the event in hand fails: a drain is saving,
\* and the step is no call of a handler, no tick of the clock and saves
\* nothing.
FailedWrite ==
    /\ drain.pc = "saving"
    /\ lastIntake' = NoIntake
    /\ now' = now
    /\ accepted' = accepted
    /\ savedActivities' = savedActivities

\* C25: a failed write ends the drain: the in-progress flag is cleared and
\* the failed event is at the front of the queue, left for the next drain.
C25_FailedWriteEndsDrain ==
    [][FailedWrite =>
           /\ ~processingQueue'
           /\ drain' = IdleDrain
           /\ activityQueue' # <<>>
           /\ Head(activityQueue') = Head(drain.batch)]_vars

\* what does hold: a drain that ends clears the flag and leaves the queue
\* empty
C25_FlagClearedAtEnd ==
    [][(drain.pc = "saving" /\ drain'.pc = "idle") =>
           ~processingQueue' /\ activityQueue' = <<>>]_vars

\* C26: the in-progress flag is set exactly while a drain is active, and a
\* handler that accepts an event while it is set takes no batch: the drain
\* in hand and the stored activities stay as they are and the queue grows
\* by the event.
C26_OneDrainAtATime ==
    [][/\ processingQueue' <=> drain'.pc = "saving"
       /\ (processingQueue /\ accepted' # accepted) =>
              /\ drain' = drain
              /\ processingQueue'
              /\ savedActivities' = savedActivities
              /\ activityQueue' = Append(activityQueue, lastIntake'.event)]_vars

\* an event accepted while a drain is active waits in the queue
C26_Witness ==
    /\ lastIntake.outcome = "accepted"
    /\ processingQueue
    /\ drain.pc = "saving"
    /\ activityQueue # <<>>
    /\ activityQueue[Len(activityQueue)] = lastIntake.event
    /\ lastIntake.event \notin {drain.batch[i] : i \in DOMAIN drain.batch}

\* three events wait behind the one being saved
C26_WitnessThreeWaiting ==
    /\ drain.pc = "saving"
    /\ Len(drain.batch) = 1
    /\ Len(activityQueue) = 3
    /\ savedActivities = <<>>

\* ------------------------------------------------------------------------
\* Resolution: a page and its domain are classified by the user and by the
\* behaviour update while classifications of the page are asked for.
\* ------------------------------------------------------------------------
ResolvedSites == {UrlPlain, UrlSub}

\* AIModelEngine.classifySite: distraction exactly above 0.5
AiResults ==
    {Classification("productive", 400, "ai"),
     Classification("distraction", 590, "ai"),
     Classification("distraction", 600, "ai"),
     Classification("distraction", 900, "ai")}

\* RuleBasedClassifier.classify: the default, news in work hours, a known
\* productivity site
RuleResults ==
    {Classification("neutral", 500, "default"),
     Classification("distraction", 600, "default"),
     Classification("productive", 900, "default")}

InitResolver == InitSuggest

NextResolver ==
    \/ \E category \in UserCategories :
           SaveUserClassificationBegin(UrlPlain, category)
    \/ \E url \in ResolvedSites :
           SaveDomainClassificationBegin(url, "productive")
    \/ UserSaveWrite
    \/ \E ai \in AiClassifications : UpdateFromBehaviorCheck(UrlPlain, ai)
    \/ UpdateFromBehaviorLoad
    \/ UpdateFromBehaviorWrite
    \/ \E url \in ResolvedSites : GetClassificationExact(url)
    \/ \E ai \in AiResults, rule \in RuleResults :
           GetClassificationScorers(ai, rule)

SpecResolver == InitResolver /\ [][NextResolver]_vars

\* C27: the classification returned is the user's entry of the exact URL
\* when there is one; otherwise the user's entry of the domain with its url
\* set to the URL asked for; otherwise the AI's classification when its
\* confidence is at least 0.6; otherwise the one of the AI's and the
\* rule-based classification with the higher confidence.
C27_ResolvedByPriority ==
    lastResolve.key # <<>> =>
        LET r == lastResolve
        IN IF r.exact.source = "user"
           THEN r.result = r.exact /\ r.result.url = r.key
           ELSE IF r.domain.source = "user"
           THEN /\ r.result = [r.domain EXCEPT !.url = r.key]
                /\ r.result.source = "user"
           ELSE IF r.ai.confidence >= 600
           THEN r.result = r.ai
           ELSE /\ r.result \in {r.ai, r.rule}
                /\ r.result.confidence >= r.ai.confidence
                /\ r.result.confidence >= r.rule.confidence

\* the domain's entry is returned for a page of it, with the page's URL
C27_Witness ==
    /\ lastResolve.key = href(UrlPlain)
    /\ lastResolve.exact.source = "ai"
    /\ lastResolve.domain.source = "user"
    /\ lastResolve.domain.url = UrlPlain.host
    /\ lastResolve.result.url = href(UrlPlain)
    /\ lastResolve.result.source = "user"

\* the exact entry wins over the domain's entry
C27_WitnessExact ==
    /\ lastResolve.key = href(UrlPlain)
    /\ lastResolve.exact.source = "user"
    /\ lastResolve.exact.category = "distraction"
    /\ UrlPlain.host \in DOMAIN classifications
    /\ lastResolve.result.category = "distraction"

\* the AI at 0.59 loses to the rule-based classification at 0.6
C27_WitnessRule ==
    /\ lastResolve.key = href(UrlSub)
    /\ lastResolve.ai.confidence = 590
    /\ lastResolve.result.source = "default"
    /\ lastResolve.result.confidence = 600

\* the AI at 0.6 is returned against the rule-based classification at 0.9
C27_WitnessAi ==
    /\ lastResolve.key = href(UrlSub)
    /\ lastResolve.ai.confidence = 600
    /\ lastResolve.rule.confidence = 900
    /\ lastResolve.result.source = "ai"

\* ------------------------------------------------------------------------
\* Responses to interventions: the challenges of two pages are dismissed
\* and completed, each response handled up to its first wait while the
\* save of an earlier one may still be in flight.
\* ------------------------------------------------------------------------
MaxResponses == 10

RespondedUrls == {1, 2}

InitResponses == InitSuggest

NextResponses ==
    \/ /\ Len(dismissalLog) < MaxResponses
       /\ \E url \in RespondedUrls, c \in StreakCallers :
              DismissedResponse(url, c)
    \/ /\ difficultyLevel < MaxDifficulty
       /\ \E url \in RespondedUrls, c \in StreakCallers :
              CompletedResponse(url, c)
    \/ ExecuteStrategySettings
    \/ \E c \in StreakCallers : SaveStreakReturns(c)

SpecResponses == InitResponses /\ [][NextResponses]_vars

\* the count a dismissal has brought its site to
CountReached == adaptationDismissalCount(dismissalHistory', lastCall'.url)

\* C28: a dismissal that brings its site's count to 3 or 4 multiplies the
\* cooldown by 1.5 and leaves the difficulty; to 5-9 multiplies it by 2 and
\* lowers the difficulty by 1; to 10 or more multiplies it by 3 and lowers
\* the difficulty by 2.  (Cooldown in minutes, difficulty in tenths.)
C28_StrategyApplied ==
    [][dismissalLog' # dismissalLog =>
           /\ (CountReached >= 3 /\ CountReached < 5) =>
                  /\ interventionCooldown' * 10 = interventionCooldown * 15
                  /\ difficultyLevel' = difficultyLevel
           /\ (CountReached >= 5 /\ CountReached < 10) =>
                  /\ interventionCooldown' = interventionCooldown * 2
                  /\ difficultyLevel' = difficultyLevel - 10
           /\ CountReached >= 10 =>
                  /\ interventionCooldown' = interventionCooldown * 3
                  /\ difficultyLevel' = difficultyLevel - 20]_vars

\* what does hold: the cooldown goes to 15 minutes with the third
\* consecutive dismissal of a site and is otherwise left alone, and the
\* difficulty falls by 0.2 for the dismissal and by 0.2 more for every unit
\* of the strategy's adjustment, not below 1
C28_WhatDismissalDoes ==
    [][dismissalLog' # dismissalLog =>
           LET units == IF CountReached >= 10 THEN 3
                        ELSE IF CountReached >= 5 THEN 2 ELSE 1
               lowered == difficultyLevel - 2 * units
           IN /\ interventionCooldown' =
                     IF CountReached >= 3 THEN EscalatedCooldown
                     ELSE interventionCooldown
              /\ difficultyLevel' = IF lowered > 10 THEN lowered ELSE 10]_vars

\* the third dismissal of a page: the cooldown is 15 minutes, three times
\* what it was
C28_WitnessThird ==
    /\ lastCall.op = "recordDismissal"
    /\ adaptationDismissalCount(dismissalHistory, lastCall.url) = 3
    /\ lastCall.cooldown = DefaultCooldown
    /\ interventionCooldown = EscalatedCooldown

\* the tenth dismissal of a page
C28_WitnessTenth ==
    /\ lastCall.op = "recordDismissal"
    /\ adaptationDismissalCount(dismissalHistory, lastCall.url) = 10
    /\ interventionCooldown = EscalatedCooldown

\* ------------------------------------------------------------------------
\* Challenge generations: which prompt a generation may return
\* ------------------------------------------------------------------------
GeneratedTypes == {"reflection", "intention"}

GeneratedLists == {<<"intention", "reflection">>}

GeneratedContexts == {BrowsingContext(UrlPlain, sh) : sh \in SessionShapes}

InitPrompts == InitSuggest

NextPrompts ==
    \/ \E type \in GeneratedTypes, r \in RandomDraws : Generate(type, r)
    \/ \E context \in GeneratedContexts, preferredTypes \in GeneratedLists,
          r \in RandomDraws :
           GenerateChallenge(context, preferredTypes, r)

SpecPrompts == InitPrompts /\ [][NextPrompts]_vars

\* C29: the prompt a generation returns is none of the three prompts
\* returned last before it for the same type.  chosenPrompts holds, per
\* type, the prompts returned last, oldest first; every prompt in it was
\* the newest one when it was returned, so each is compared with the (up
\* to) three before it.
C29_NotAmongLastThree ==
    \A type \in ChallengeTypes :
        LET chosen == chosenPrompts[type]
        IN \A i \in DOMAIN chosen :
               \A j \in DOMAIN chosen :
                   (j < i /\ j >= i - 3) => chosen[j] # chosen[i]

\* four generations of one type have gone by, the Set has dropped its
\* oldest entry and holds exactly the three prompts returned last
C29_Witness ==
    \E type \in GeneratedTypes :
        LET chosen == chosenPrompts[type]
            n == Len(chosen)
        IN /\ n >= 4
           /\ usedPrompts[type] = SubSeq(chosen, n - 2, n)
           /\ ~ has(usedPrompts[type], chosen[n - 3])

\* both types have their own memory: the same prompt is the newest of both
C29_WitnessPerType ==
    /\ Len(chosenPrompts["reflection"]) >= 4
    /\ Len(chosenPrompts["intention"]) >= 4
    /\ chosenPrompts["reflection"][Len(chosenPrompts["reflection"])]
           = chosenPrompts["intention"][Len(chosenPrompts["intention"])]

\* ------------------------------------------------------------------------
\* Feedback to the AI model: which weights one update moves
\* ------------------------------------------------------------------------
MaxFeedback == 2

\* x.com, one of socialDomains
UrlSocial == [host |-> <<"x", ".", "c", "o", "m">>, path |-> <<"/">>]

FeedbackUrls == {UrlSocial, UrlCall}

\* a short single-page session; one page each on two domains; six pages of
\* one site in five minutes, 20 minutes after the last productive activity;
\* a 70-minute session, 40 minutes after it
FeedbackShapes ==
    { [s |-> 10, p |-> 5, h |-> <<UrlCall>>],
      [s |-> 10, p |-> 5, h |-> <<UrlPlain, UrlCall>>],
      [s |-> 5, p |-> 20,
       h |-> <<UrlPlain, UrlPlain, UrlPlain, UrlPlain, UrlPlain, UrlPlain>>],
      [s |-> 70, p |-> 40, h |-> <<UrlPlain, UrlPlain, UrlPlain>>] }

\* noon, 19:00 and 23:00 of a Wednesday
FeedbackTimes == {0, 420, 660}

\* the context of a feedback, taken at time `at`
FeedbackContext(url, shape, at) ==
    [BrowsingContext(url, shape) EXCEPT !.timestamp = at]

FeedbackTick ==
    /\ \E t \in FeedbackTimes : t > now /\ now' = t
    /\ lastFeedback' = NoFeedback
    /\ UNCHANGED <<streakVars, predictorVars, probe, classifierVars,
                   rewardVars, intakeVars, adaptationVars, matcherVars, usedPrompts,
                   chosenPrompts, modelWeights, feedbackHistory>>

InitFeedback == InitSuggest

NextFeedback ==
    \/ /\ Len(feedbackHistory) < MaxFeedback
       /\ \E url \in FeedbackUrls, shape \in FeedbackShapes,
             wasDistraction \in BOOLEAN, at \in {0, now} :
              UpdateWithFeedback(
                  UserFeedback(url, wasDistraction, now,
                               FeedbackContext(url, shape, at)))
    \/ FeedbackTick

SpecFeedback == InitFeedback /\ [][NextFeedback]_vars

\* every key a weight can be stored under
WeightKeys ==
    DOMAIN initializeModel
        \cup {"social-media", "video-streaming", "news", "productivity",
              "other"}

\* C30: one feedback update moves by 0.1 (up if was-distraction, down if
\* not) the weight of the category key and of every flag key the
\* feedback's context activates (late-night, work-hours, domain-hopping,
\* rabbit-hole, long-session, recent-distraction), and no other weight.
\* (Weights in tenths.)
C30_AdjustsEveryActivatedKey ==
    [][lastFeedback'.ran =>
           LET feedback == lastFeedback'.feedback
               adjustment == IF feedback.wasDistraction THEN 1 ELSE 0 - 1
           IN \A key \in WeightKeys :
                  weightOf(modelWeights', key) =
                      weightOf(modelWeights, key)
                          + (IF key \in predictKeys(feedback.context)
                             THEN adjustment ELSE 0)]_vars

\* what does hold: the update moves the category key, late-night and
\* work-hours by the feedback's own timestamp, and domain-hopping, and
\* never rabbit-hole, long-session or recent-distraction
C30_WhatFeedbackAdjusts ==
    [][lastFeedback'.ran =>
           LET feedback == lastFeedback'.feedback
               adjustment == IF feedback.wasDistraction THEN 1 ELSE 0 - 1
               adjusted ==
                   {categorizeUrl(feedback.context.url)}
                   \cup (IF isLateNight(feedback.timestamp)
                         THEN {"late_night"} ELSE {})
                   \cup (IF isWorkHours(feedback.timestamp)
                         THEN {"work_hours"} ELSE {})
                   \cup (IF analyzeNavigationPattern(
                                feedback.context.recentHistory)
                                = "domain-hopping"
                         THEN {"domain_hopping"} ELSE {})
           IN \A key \in WeightKeys :
                  weightOf(modelWeights', key) =
                      weightOf(modelWeights, key)
                          + (IF key \in adjusted THEN adjustment ELSE 0)]_vars

\* a feedback whose context is a rabbit hole with a recent distraction has
\* been applied, and both weights are what initializeModel gave them
C30_WitnessRabbitHoleLeft ==
    /\ lastFeedback.ran
    /\ {"rabbit_hole", "recent_distraction"}
           \subseteq predictKeys(lastFeedback.feedback.context)
    /\ modelWeights["rabbit_hole"] = initializeModel["rabbit_hole"]
    /\ modelWeights["recent_distraction"]
           = initializeModel["recent_distraction"]

\* a feedback for a social site has been applied: the key it moved is the
\* category's name, which is not one of the keys of initializeModel
C30_WitnessCategoryKey ==
    /\ lastFeedback.ran
    /\ lastFeedback.feedback.wasDistraction
    /\ categorizeUrl(lastFeedback.feedback.url) = "social-media"
    /\ Len(feedbackHistory) = 1
    /\ modelWeights["social-media"] = 1
    /\ modelWeights["social_media"] = initializeModel["social_media"]

\* ------------------------------------------------------------------------
\* Feedback events: how many updates one event applies
\* ------------------------------------------------------------------------
MaxProcessed == 2

FeedbackTypes ==
    {"intervention_completed", "intervention_dismissed",
     "session_productive", "session_distracted"}

\* the rabbit hole of FeedbackShapes
EventShapes == {sh \in FeedbackShapes : sh.s = 5}

\* noon and 23:00 of a Wednesday
BehaviorTimes == {0, 660}

\* events are stamped Date.now() by handleInterventionResponse
FeedbackEvents ==
    {FeedbackEvent(type, url, now, FeedbackContext(url, shape, now), count) :
        type \in FeedbackTypes, url \in FeedbackUrls, shape \in EventShapes,
        count \in {1, 3}}

BehaviorTick ==
    /\ \E t \in BehaviorTimes : t > now /\ now' = t
    /\ lastFeedback' = NoFeedback
    /\ UNCHANGED <<streakVars, predictorVars, probe, classifierVars,
                   rewardVars, intakeVars, adaptationVars, matcherVars, usedPrompts,
                   chosenPrompts, modelWeights, feedbackHistory>>

InitProcessed == InitSuggest

NextProcessed ==
    \/ /\ Len(feedbackHistory) < 2 * MaxProcessed
       /\ \E event \in FeedbackEvents, ai \in AiClassifications :
              ProcessFeedback(event, ai)
    \/ /\ Len(feedbackHistory) < 2 * MaxProcessed
       /\ \E url \in FeedbackUrls, wasProductive \in BOOLEAN,
             shape \in EventShapes, ai \in AiClassifications :
              UpdateFromBehavior(url, wasProductive,
                                 FeedbackContext(url, shape, now), ai)
    \/ UpdateFromBehaviorLoad
    \/ UpdateFromBehaviorWrite
    \/ BehaviorTick

SpecProcessed == InitProcessed /\ [][NextProcessed]_vars

\* the step is the processing of an event of the given type
Processes(type) ==
    /\ feedbackHistory' # feedbackHistory
    /\ lastFeedback'.by = type

\* the weight of the category of the event's page
categoryWeight(weights) ==
    weightOf(weights, categorizeUrl(lastFeedback'.feedback.context.url))

\* C31: processing one intervention-completed event raises the matched
\* category weight by exactly 0.1 and appends exactly one entry to the
\* feedback history; one productive-session event lowers the weight by
\* exactly 0.1 and appends one entry.  (Weights in tenths.)
C31_OneUpdatePerEvent ==
    [][/\ Processes("intervention_completed") =>
              /\ categoryWeight(modelWeights')
                     = categoryWeight(modelWeights) + 1
              /\ Len(feedbackHistory') = Len(feedbackHistory) + 1
       /\ Processes("session_productive") =>
              /\ categoryWeight(modelWeights')
                     = categoryWeight(modelWeights) - 1
              /\ Len(feedbackHistory') = Len(feedbackHistory) + 1]_vars

\* what does hold: every event that is processed applies two updates, the
\* handler's own and the one of updateFromBehavior, so the category weight
\* moves by 0.2 and two entries are appended; updateFromBehavior called on
\* its own applies one
C31_TwoUpdatesPerEvent ==
    [][/\ (Processes("intervention_completed")
              \/ Processes("session_distracted")) =>
              /\ categoryWeight(modelWeights')
                     = categoryWeight(modelWeights) + 2
              /\ Len(feedbackHistory') = Len(feedbackHistory) + 2
       /\ (Processes("session_productive")
              \/ Processes("intervention_dismissed")) =>
              /\ categoryWeight(modelWeights')
                     = categoryWeight(modelWeights) - 2
              /\ Len(feedbackHistory') = Len(feedbackHistory) + 2
       /\ Processes("updateFromBehavior") =>
              Len(feedbackHistory') = Len(feedbackHistory) + 1]_vars

\* one intervention-completed event for a social site has been processed
\* after construction: two entries, and the category weight at 0.2
C31_WitnessCompleted ==
    /\ lastFeedback.by = "intervention_completed"
    /\ Len(feedbackHistory) = 2
    /\ categorizeUrl(lastFeedback.feedback.url) = "social-media"
    /\ weightOf(modelWeights, "social-media") = 2

\* one productive-session event for zoom.us: productivity from -0.5 to -0.7
C31_WitnessProductive ==
    /\ lastFeedback.by = "session_productive"
    /\ Len(feedbackHistory) = 2
    /\ categorizeUrl(lastFeedback.feedback.url) = "productivity"
    /\ weightOf(modelWeights, "productivity") = 0 - 7

\* ------------------------------------------------------------------------
\* Similarity calculations: how often the pattern table is rebuilt
\* ------------------------------------------------------------------------
MaxRebuilds == 3

MatcherTimes == {0, 30, 59, 60, 120}

MatcherTick ==
    /\ \E t \in MatcherTimes : t > now /\ now' = t
    /\ UNCHANGED <<streakVars, predictorVars, probe, serviceVars>>

InitMatcher == InitSuggest

NextMatcher ==
    \/ /\ Len(rebuildStarts) < MaxRebuilds
       /\ \E c \in SimilarityCallers : CalculateSimilarityBegin(c)
    \/ \E c \in SimilarityCallers : GetHistoryReturns(c)
    \/ MatcherTick

SpecMatcher == InitMatcher /\ [][NextMatcher]_vars

\* C32: no two rebuilds (history reads) start less than 60 minutes apart,
\* also when calculateSimilarity calls overlap.  No forceUpdate is made in
\* this specification.
C32_RebuildsAnHourApart ==
    \A i, j \in DOMAIN rebuildStarts :
        i < j => rebuildStarts[j] - rebuildStarts[i] >= updateInterval

\* what does hold: when a rebuild starts, the start of the last rebuild
\* that has finished is at least 60 minutes back
C32_AnHourAfterFinishedRebuild ==
    [][rebuildStarts' # rebuildStarts =>
           Epoch + now - lastUpdate >= updateInterval]_vars

\* two calls are reading the history at once, started at the same minute
C32_WitnessOverlap ==
    /\ similarityCalls[1].pc = "reading"
    /\ similarityCalls[2].pc = "reading"
    /\ similarityCalls[1].at = similarityCalls[2].at

\* the table has been rebuilt: the one pattern seen twice in 30 days
C32_WitnessRebuilt ==
    /\ lastUpdate = Epoch + 60
    /\ Len(rebuildStarts) = 2
    /\ Cardinality(historicalPatterns) = 1
    /\ \A p \in historicalPatterns : p.frequency = 2 /\ p.wasDistraction

\* ------------------------------------------------------------------------
\* Persisted copies of the streak and of the reward state
\* ------------------------------------------------------------------------
\* no award call and no streak call is in progress
NothingInProgress ==
    /\ \A c \in AwardCallers : awardOps[c].pc = "idle"
    /\ \A c \in StreakCallers : streakCalls[c].pc = "idle"

\* C33: after every completed mutating operation on the streak or the
\* reward state the persisted copy equals the state in memory: the streak
\* record, the progress (total points, level, achievements) and the
\* intervention and productive-minute counters.  Storage writes do not fail
\* in SpecRewards.
C33_PersistedEqualsMemory ==
    NothingInProgress =>
        /\ storedStreak = streakData
        /\ storedProgress =
               Saved(userProgress, totalInterventions, totalProductiveMinutes)

\* what does hold for the rewards: the persisted progress record equals
\* the one in memory, and the persisted counters are never ahead
C33_ProgressPersisted ==
    NothingInProgress =>
        /\ storedProgress.dar_user_progress = userProgress
        /\ storedProgress.dar_total_interventions <= totalInterventions
        /\ storedProgress.dar_total_productive_minutes
               <= totalProductiveMinutes

\* what does hold for the streak: the persisted record equals the one in
\* memory whenever no streak call is waiting for its write
C33_StreakPersisted ==
    (\A c \in StreakCallers : streakCalls[c].pc = "idle") =>
        storedStreak = streakData

\* two interventions have been awarded and nothing is in progress: the
\* counter in memory is 2, the persisted one is the 1 written with the
\* first_intervention achievement
C33_WitnessCounterBehind ==
    /\ NothingInProgress
    /\ totalInterventions = 2
    /\ storedProgress.dar_total_interventions = 1

\* a streak has been started and incremented and its writes have returned
C33_WitnessStreakSaved ==
    /\ \A c \in StreakCallers : streakCalls[c].pc = "idle"
    /\ streakData.current >= 2
    /\ storedStreak = streakData

\* ------------------------------------------------------------------------
\* Streak events and their listeners
\* ------------------------------------------------------------------------
MaxListeners == 2

\* two listeners that return and one that throws
OfferedListeners ==
    {Listener(1, FALSE), Listener(2, TRUE), Listener(3, FALSE)}

ListenerFrame ==
    /\ emitted' = <<>>
    /\ delivered' = <<>>
    /\ lastOp' = "none"
    /\ pre' = Snapshot
    /\ UNCHANGED <<now, currentState, streakData, lastActivityTime,
                   storedStreak, streakCalls, lastGain, predictorVars, probe,
                   serviceVars>>

\* addEventListener: this.listeners.push(listener)
AddEventListener(listener) ==
    /\ listeners' = Append(listeners, listener)
    /\ ListenerFrame

\* removeEventListener: indexOf and splice(index, 1)
RemoveEventListener(listener) ==
    /\ LET found == {i \in DOMAIN listeners : listeners[i] = listener}
       IN IF found = {} THEN listeners' = listeners
          ELSE LET index == CHOOSE i \in found : \A j \in found : i <= j
               IN listeners' =
                      SubSeq(listeners, 1, index - 1)
                          \o SubSeq(listeners, index + 1, Len(listeners))
    /\ ListenerFrame

ListenerTimes == {0, 5, 10}

ListenerTick ==
    /\ \E t \in ListenerTimes : t > now /\ now' = t
    /\ UNCHANGED listeners
    /\ emitted' = <<>>
    /\ delivered' = <<>>
    /\ lastOp' = "none"
    /\ pre' = Snapshot
    /\ UNCHANGED <<currentState, streakData, lastActivityTime, storedStreak,
                   streakCalls, lastGain, predictorVars, probe, serviceVars>>

InitListeners == InitSuggest

NextListeners ==
    \/ /\ Len(listeners) < MaxListeners
       /\ \E listener \in OfferedListeners : AddEventListener(listener)
    \/ \E listener \in OfferedListeners : RemoveEventListener(listener)
    \/ \E c \in StreakCallers : RecordProductiveActivityCall(c)
    \/ \E c \in StreakCallers : RecordDistractionCall(c)
    \/ \E c \in StreakCallers : CheckInactivityCall(c)
    \/ \E c \in StreakCallers : SaveStreakReturns(c)
    \/ ListenerTick

SpecListeners == InitListeners /\ [][NextListeners]_vars

\* C34: every event emitted is handed to every registered listener, in
\* registration order, whether or not a listener before it has thrown, and
\* the emission leaves the streak as it was.
C34_DeliveredToEveryListener ==
    [][emitted' # <<>> =>
           /\ Len(delivered') = Len(emitted') * Len(listeners)
           /\ \A e \in DOMAIN emitted', l \in DOMAIN listeners :
                  delivered'[(e - 1) * Len(listeners) + l] =
                      [listener |-> listeners[l].id, event |-> emitted'[e]]
           /\ UNCHANGED <<currentState, streakData, storedStreak,
                          lastActivityTime, listeners>>]_vars

\* an event has been delivered to a listener registered behind one that
\* throws
C34_Witness ==
    /\ Len(emitted) = 1
    /\ Len(listeners) = 2
    /\ listeners[1].throws /\ ~ listeners[2].throws
    /\ Len(delivered) = 2
    /\ delivered[2].listener = listeners[2].id

\* a break event has been delivered twice to a listener registered twice
C34_WitnessRegisteredTwice ==
    /\ Len(emitted) = 1 /\ emitted[1].type = "break"
    /\ Len(listeners) = 2 /\ listeners[1] = listeners[2]
    /\ Len(delivered) = 2

\* ------------------------------------------------------------------------
\* StreakManager at start-up.  The constructor calls initialize() without
\* waiting for it, so the manager exists with streakData unset and state
\* INACTIVE while storageManager.getCurrentStreak is pending.  Call 0 is
\* the constructor's initialize(); a startStreak that finds streakData
\* unset waits for an initialize() of its own.  Loads return in the order
\* they were issued.
\* ------------------------------------------------------------------------
\* streakData before the first load has returned
NullStreak == [null |-> TRUE]

Constructor == 0

\* the records storage may hold when the manager is constructed
PersistedStreaks ==
    {DEFAULT_STREAK,
     [current |-> 3, longest |-> 4, lastUpdate |-> 0, multiplier |-> 10]}

\* the clock at construction: 10 minutes after the persisted lastUpdate,
\* or 40 minutes after it
StartupStarts == {10, 40}

StartupTimes == {10, 16, 40, 46}

\* initialize(): the part after getCurrentStreak has returned
initialize(m, t) ==
    LET timeSinceUpdate == t - m.stored.lastUpdate
    IN [m EXCEPT !.data = m.stored,
                 !.st = IF /\ timeSinceUpdate < inactivityThreshold
                           /\ m.stored.current > 0
                        THEN ACTIVE
                        ELSE m.st]

\* startStreak from the return of its initialize() on: the state is not
\* read again
startStreakResumed(m, t) ==
    LET mi == initialize(m, t)
        d == [mi.data EXCEPT !.current = 1, !.lastUpdate = t,
                             !.multiplier = 10]
        m1 == [mi EXCEPT !.data = d, !.st = ACTIVE, !.act = t]
    IN emitEvent(saveStreak(m1), StreakEvent("start", 1, FALSE))

InitializingCall ==
    [pc |-> "initializing", type |-> "none", value |-> 0, best |-> FALSE]

\* the fields a start-up step sets, with the bookkeeping of a streak step
StartupStep(c, name, m, call) ==
    /\ currentState' = m.st
    /\ streakData' = m.data
    /\ lastActivityTime' = m.act
    /\ storedStreak' = m.stored
    /\ streakCalls' = [streakCalls EXCEPT ![c] = call]
    /\ lastGain' =
           IF call.type = "start" THEN [type |-> "start", at |-> now]
           ELSE lastGain
    /\ lastOp' = name
    /\ pre' = Snapshot
    /\ emitted' = <<>>
    /\ delivered' = <<>>
    /\ UNCHANGED <<listeners, now, predictorVars, probe, serviceVars>>

\* the constructor's initialize() continues after its load
ConstructorLoadReturns ==
    /\ streakCalls[Constructor].pc = "initializing"
    /\ StartupStep(Constructor, "initialize", initialize(Machine, now),
                   IdleStreakCall)

\* recordProductiveActivity while streakData is unset: lastActivityTime is
\* set, the state is INACTIVE, and startStreak waits for initialize()
RecordProductiveActivityEarly(c) ==
    /\ streakData = NullStreak
    /\ streakCalls[c].pc = "idle"
    /\ StartupStep(c, "recordProductiveActivity",
                   [Machine EXCEPT !.act = now], InitializingCall)

\* the initialize() of a startStreak returns and startStreak runs on to
\* its saveStreak
StartStreakLoadReturns(c) ==
    LET m == startStreakResumed(Machine, now)
    IN /\ streakCalls[c].pc = "initializing"
       /\ streakCalls[Constructor].pc = "idle"
       /\ StartupStep(c, "startStreak", m, Waiting(m))

\* recordProductiveActivity once streakData is set
RecordProductiveActivityLoaded(c) ==
    /\ streakData # NullStreak
    /\ RecordProductiveActivityCall(c)

StartupTick ==
    /\ \E t \in StartupTimes : t > now /\ now' = t
    /\ lastOp' = "none"
    /\ pre' = Snapshot
    /\ emitted' = <<>>
    /\ delivered' = <<>>
    /\ UNCHANGED <<listeners, currentState, streakData, lastActivityTime,
                   storedStreak, streakCalls, lastGain, predictorVars,
                   probe, serviceVars>>

\* the state when the constructor has returned
InitStartup ==
    /\ now \in StartupStarts
    /\ streakCalls = [c \in StreakCallers \cup {Constructor} |->
                          IF c = Constructor THEN InitializingCall
                          ELSE IdleStreakCall]
    /\ lastGain = NoGain
    /\ currentState = INACTIVE
    /\ streakData = NullStreak
    /\ lastActivityTime = now
    /\ storedStreak \in PersistedStreaks
    /\ lastOp = "none"
    /\ pre = [st |-> INACTIVE, data |-> NullStreak, act |-> now,
              stored |-> storedStreak]
    /\ emitted = <<>>
    /\ listeners = <<>>
    /\ delivered = <<>>
    /\ PredictorInit(DEFAULT_SETTINGS)
    /\ hourBase = 12
    /\ dayBase = 3
    /\ probe = NoProbe
    /\ ServiceInit

NextStartup ==
    \/ ConstructorLoadReturns
    \/ \E c \in StreakCallers : RecordProductiveActivityEarly(c)
    \/ \E c \in StreakCallers : StartStreakLoadReturns(c)
    \/ \E c \in StreakCallers : RecordProductiveActivityLoaded(c)
    \/ \E c \in StreakCallers : RecordDistractionCall(c)
    \/ \E c \in StreakCallers : CheckInactivityCall(c)
    \/ \E c \in StreakCallers : SaveStreakReturns(c)
    \/ StartupTick

SpecStartup == InitStartup /\ [][NextStartup]_vars

\* the persisted streak of the model that is still active at construction
StillActive(record, t) ==
    record.current > 0 /\ t - record.lastUpdate < inactivityThreshold

\* C35: when the constructor's load returns a streak that is still active
\* the manager is ACTIVE with the persisted current, and a
\* recordProductiveActivity that arrived while the load was pending neither
\* sets current to 1 nor emits a start event.
C35_EarlyActivityKeepsStreak ==
    [][/\ (/\ ConstructorLoadReturns
           /\ StillActive(storedStreak, now))
          => /\ currentState' = ACTIVE
             /\ streakData' = storedStreak
       /\ \A c \in StreakCallers :
              (/\ StartStreakLoadReturns(c)
               /\ StillActive(storedStreak, now))
                  => /\ streakData'.current = storedStreak.current
                     /\ streakCalls'[c].type # "start"]_vars

\* C35, the part the code keeps: the constructor's load resumes a streak
\* that is still active as ACTIVE with the persisted record.
C35_LoadResumesActive ==
    [][(/\ ConstructorLoadReturns
        /\ StillActive(storedStreak, now))
          => /\ currentState' = ACTIVE
             /\ streakData' = storedStreak]_vars

\* the streak of 3 resumed by the constructor's load, then set to 1 by the
\* startStreak of a call that arrived before it
C35_WitnessReset ==
    /\ lastOp = "startStreak"
    /\ pre.st = ACTIVE
    /\ pre.data.current = 3
    /\ streakData.current = 1
    /\ storedStreak.current = 1

\* the start event of that call
C35_WitnessStartEvent ==
    /\ lastOp = "saveStreak"
    /\ emitted = <<StreakEvent("start", 1, FALSE)>>
    /\ streakData.current = 1
    /\ streakData.longest = 4

\* C37: once the streak record is loaded, current is 0 exactly when the
\* state is INACTIVE or BROKEN and at least 1 exactly when it is ACTIVE.
C37_CurrentMatchesState ==
    streakData # NullStreak =>
        /\ streakData.current = 0 <=> currentState \in {INACTIVE, BROKEN}
        /\ streakData.current >= 1 <=> currentState = ACTIVE

\* the persisted streak of 3, last updated 40 minutes before construction,
\* is loaded and the state stays INACTIVE
C37_WitnessStaleLoaded ==
    /\ lastOp = "initialize"
    /\ now = 40
    /\ currentState = INACTIVE
    /\ streakData.current = 3
    /\ streakData.lastUpdate = 0

\* C37 for the states that did not load a stale streak: the relation holds
\* when the record in storage at construction was empty or still active.
C37_HoldsWithoutStaleLoad ==
    (/\ streakData # NullStreak
     /\ ~(now >= 40 /\ streakData.current = 3 /\ streakData.lastUpdate = 0))
        => /\ streakData.current = 0 <=> currentState \in {INACTIVE, BROKEN}
           /\ streakData.current >= 1 <=> currentState = ACTIVE

\* the calls that begin a break in a step: idle before it, waiting for the
\* save of a break after it
BeginsBreak == {c \in StreakCallers : /\ streakCalls[c].pc = "idle"
                                      /\ streakCalls'[c].pc = "saving"
                                      /\ streakCalls'[c].type = "break"}

\* the calls whose break event a step emits
EmitsBreak == {c \in StreakCallers : /\ streakCalls[c].pc = "saving"
                                     /\ streakCalls[c].type = "break"
                                     /\ streakCalls'[c].pc = "idle"}

breakEvents(events) == SelectSeq(events, LAMBDA e : e.type = "break")

\* C36: a break is begun only in state ACTIVE and ends that ACTIVE period
\* (the state is BROKEN and current 0 before the call waits), so a call
\* overlapping it begins no break; only such a step takes current to 0,
\* and every break event emitted is the one event of a call that began a
\* break.
C36_OneBreakPerActivePeriod ==
    [][/\ BeginsBreak # {} =>
              /\ currentState = ACTIVE
              /\ streakData.current >= 1
              /\ currentState' = BROKEN
              /\ streakData'.current = 0
       /\ (streakData # NullStreak /\ streakData.current > 0
               /\ streakData'.current = 0) => BeginsBreak # {}
       /\ currentState' = BROKEN /\ currentState # BROKEN
              => BeginsBreak # {}
       /\ Len(breakEvents(emitted')) = Cardinality(EmitsBreak)
       /\ Cardinality(EmitsBreak) <= 1]_vars

\* the inactivity check arrives, 30 minutes after the last activity, while
\* the break of a recordDistraction waits for its save: it changes nothing
C36_WitnessCheckOverlapsBreak ==
    /\ lastOp = "checkInactivity"
    /\ now - lastActivityTime >= inactivityThreshold
    /\ pre.st = BROKEN
    /\ pre = Snapshot
    /\ \E c \in StreakCallers : /\ streakCalls[c].pc = "saving"
                                /\ streakCalls[c].type = "break"
    /\ \E c \in StreakCallers : streakCalls[c].pc = "idle"

\* recordDistraction arrives while the break of the inactivity check waits
\* for its save
C36_WitnessDistractionOverlapsBreak ==
    /\ lastOp = "recordDistraction"
    /\ pre.st = BROKEN
    /\ pre = Snapshot
    /\ pre.data.lastUpdate - lastActivityTime >= inactivityThreshold
    /\ \E c \in StreakCallers : /\ streakCalls[c].pc = "saving"
                                /\ streakCalls[c].type = "break"
    /\ \E c \in StreakCallers : streakCalls[c].pc = "idle"

\* the one break event of the period
C36_WitnessBreakEmitted ==
    /\ lastOp = "saveStreak"
    /\ Len(emitted) = 1
    /\ emitted[1].type = "break"
    /\ emitted[1].streakValue = 3
    /\ currentState = BROKEN

\* ------------------------------------------------------------------------
\* Claims about the level achievements
\* ------------------------------------------------------------------------
\* C38: at level 5 or above the level_5 achievement is unlocked and at
\* level 10 the level_10 achievement is unlocked, in every state of the
\* award calls, those in which a call waits included.
C38_LevelAchievementsUnlocked ==
    /\ userProgress.level >= 5 => "level_5" \in Unlocked(userProgress)
    /\ userProgress.level = 10 => "level_10" \in Unlocked(userProgress)

\* the award that takes the total from 990 to 1000 has unlocked level_5
C38_WitnessLevelFive ==
    /\ userProgress.level = 5
    /\ userProgress.totalPoints = 1000
    /\ lastUnlock = [id |-> "level_5", wasUnlocked |-> FALSE]
    /\ "level_5" \in Unlocked(storedProgress.dar_user_progress)

\* the largest award, 100 points, takes the total from 29900 to level 10
C38_WitnessLevelTen ==
    /\ userProgress.level = 10
    /\ userProgress.totalPoints = 30000
    /\ lastUnlock = [id |-> "level_10", wasUnlocked |-> FALSE]

\* no award of the model raises the level by more than one
C38_OneLevelAtATime ==
    [][userProgress'.level <= userProgress.level + 1]_vars

\* ------------------------------------------------------------------------
\* Rabbit-hole detection on the contexts the ActivityTracker builds
\* (src/src/content/ActivityTracker.ts): the recent history grows by
\* addToRecentHistory, and the score of the context is then computed.  A
\* context received in a message may hold a longer history; one of six
\* pages stands for those.
\* ------------------------------------------------------------------------
RecentLimit == 5

\* addToRecentHistory(url)
addToRecentHistory(recentHistory, url) ==
    IF Len(recentHistory) > 0 /\ recentHistory[Len(recentHistory)] = url
    THEN recentHistory
    ELSE LET pushed == Append(recentHistory, url)
         IN IF Len(pushed) > RecentLimit THEN Tail(pushed) ELSE pushed

VisitedUrls == {UrlSocial, UrlPlain}

SixPages ==
    <<UrlPlain, UrlSocial, UrlPlain, UrlSocial, UrlPlain, UrlSocial>>

\* Math.floor of the minutes since the session began
SessionDurations == {0, 4, 5, 6, 70}

ProductiveAges == {5, 40}

\* minute 660 is 23:00 with hourBase 12
ContextTimes == {0, 660}

RabbitProbe(history, s, p, t, classification) ==
    [applied |-> FALSE,
     context |-> [url |-> UrlSocial, timestamp |-> t, sessionDuration |-> s,
                  lastProductiveActivity |-> p, recentHistory |-> history],
     aiConfidence |-> 900, classification |-> classification,
     rabbitHole |-> FALSE, score |-> 0, reason |-> <<>>]

InitRabbitHole ==
    /\ now = 0
    /\ StreakInit
    /\ PredictorInit(DEFAULT_SETTINGS)
    /\ hourBase = 12
    /\ dayBase = 3
    /\ ServiceInit
    /\ \E history \in {<<>>, SixPages}, s \in SessionDurations,
          p \in ProductiveAges, t \in ContextTimes,
          classification \in Classifications :
           probe = RabbitProbe(history, s, p, t, classification)

\* the tracker records a navigation
AddToRecentHistory(url) ==
    /\ ~probe.applied
    /\ probe' = [probe EXCEPT !.context.recentHistory =
                                  addToRecentHistory(@, url)]
    /\ UNCHANGED <<now, streakVars, predictorVars, serviceVars>>

\* the predictor scores the context
ApplyCalculateDistractionScore ==
    /\ ~probe.applied
    /\ probe' =
           [probe EXCEPT
                !.applied = TRUE,
                !.rabbitHole =
                    detectRabbitHole(probe.context.recentHistory,
                                     probe.context.sessionDuration),
                !.score =
                    calculateDistractionScore(probe.aiConfidence,
                                              probe.classification,
                                              probe.context),
                !.reason =
                    generateReason(probe.aiConfidence, probe.classification,
                                   probe.context)]
    /\ UNCHANGED <<now, streakVars, predictorVars, serviceVars>>

NextRabbitHole ==
    \/ \E url \in VisitedUrls : AddToRecentHistory(url)
    \/ ApplyCalculateDistractionScore

SpecRabbitHole == InitRabbitHole /\ [][NextRabbitHole]_vars

\* the fused score, in thousandths times ten, without the rabbit-hole
\* contribution
scoreWithoutRabbitHole(aiConfidence, classification, context) ==
    aiConfidence * 4
    + (IF classification.category = "distraction"
       THEN classification.confidence * 3
       ELSE IF classification.category = "productive"
       THEN (1000 - classification.confidence) * 3
       ELSE 500 * 3)
    + 3 * ((IF isLateNight(context.timestamp) THEN 300 ELSE 0)
           + (IF longSession(context) THEN 300 ELSE 0))

\* C39: for a context whose recent history holds at most 5 URLs the
\* rabbit-hole detection answers false, the fused score has no 0.4
\* rabbit-hole contribution in its context term, and the reason does not
\* name a rapid navigation pattern.
C39_NoRabbitHoleUpToFiveUrls ==
    (probe.applied /\ Len(probe.context.recentHistory) <= 5) =>
        /\ ~probe.rabbitHole
        /\ probe.score = scoreWithoutRabbitHole(probe.aiConfidence,
                                                probe.classification,
                                                probe.context)
        /\ \A i \in DOMAIN probe.reason :
               probe.reason[i] # "Rapid navigation pattern detected"

\* five pages of two categories in a session of five minutes, scored
C39_WitnessFiveInFive ==
    /\ probe.applied
    /\ Len(probe.context.recentHistory) = 5
    /\ probe.context.sessionDuration = 5
    /\ ~probe.rabbitHole

\* six pages in five minutes are a rabbit hole, and the score carries the
\* contribution
C39_WitnessSixPages ==
    /\ probe.applied
    /\ Len(probe.context.recentHistory) = 6
    /\ probe.context.sessionDuration = 5
    /\ probe.rabbitHole
    /\ probe.score = 1200 + scoreWithoutRabbitHole(probe.aiConfidence,
                                                   probe.classification,
                                                   probe.context)

\* ------------------------------------------------------------------------
\* AIModelEngine.predict: the raw score, in tenths, before the sigmoid
\* ------------------------------------------------------------------------
\* The category weight is read under the key with underscores.
predictScore_Mut(weights, context) ==
    LET features == extractFeatures(context)
        key == IF features.siteCategory = "social-media" THEN "social_media"
               ELSE IF features.siteCategory = "video-streaming"
               THEN "video_streaming"
               ELSE features.siteCategory
    IN (IF isLateNight(context.timestamp)
        THEN weightOf(weights, "late_night") ELSE 0)
       + (IF isWorkHours(context.timestamp)
          THEN weightOf(weights, "work_hours") ELSE 0)
       + weightOf(weights, key)
       + (IF features.navigationPattern = "domain-hopping"
          THEN weightOf(weights, "domain_hopping") ELSE 0)
       + (IF detectRabbitHole(context.recentHistory, context.sessionDuration)
          THEN weightOf(weights, "rabbit_hole") ELSE 0)
       + (IF context.sessionDuration > 60
             /\ context.lastProductiveActivity > 30
          THEN weightOf(weights, "long_session") ELSE 0)
       + (IF context.lastProductiveActivity > 15
          THEN weightOf(weights, "recent_distraction") ELSE 0)

predictScore(weights, context) ==
    LET features == extractFeatures(context)
    IN (IF isLateNight(context.timestamp)
        THEN weightOf(weights, "late_night") ELSE 0)
       + (IF isWorkHours(context.timestamp)
          THEN weightOf(weights, "work_hours") ELSE 0)
       + weightOf(weights, features.siteCategory)
       + (IF features.navigationPattern = "domain-hopping"
          THEN weightOf(weights, "domain_hopping") ELSE 0)
       + (IF detectRabbitHole(context.recentHistory, context.sessionDuration)
          THEN weightOf(weights, "rabbit_hole") ELSE 0)
       + (IF context.sessionDuration > 60
             /\ context.lastProductiveActivity > 30
          THEN weightOf(weights, "long_session") ELSE 0)
       + (IF context.lastProductiveActivity > 15
          THEN weightOf(weights, "recent_distraction") ELSE 0)

UrlVideo ==
    [host |-> <<"y", "o", "u", "t", "u", ".", "b", "e">>, path |-> <<"/">>]

UrlNews == [host |-> <<"b", "b", "c", ".", "c", "o", "m">>, path |-> <<"/">>]

PredictUrls == {UrlSocial, UrlVideo, UrlNews, UrlPlain}

\* 12:00 and 19:00 on a Wednesday, and 23:00
PredictTimes == {0, 420, 660}

MaxPredictFeedback == 1

NoPrediction ==
    [applied |-> FALSE, context |-> <<>>, score |-> 0, asOther |-> 0]

\* predict(context), and predict for the same context on a page of
\* category other
Predict(context) ==
    /\ probe' = [applied |-> TRUE, context |-> context,
                 score |-> predictScore(modelWeights, context),
                 asOther |-> predictScore(modelWeights,
                                          [context EXCEPT !.url = UrlPlain])]
    /\ UNCHANGED <<now, streakVars, predictorVars, serviceVars>>

InitPredict ==
    /\ now = 0
    /\ StreakInit
    /\ PredictorInit(DEFAULT_SETTINGS)
    /\ hourBase = 12
    /\ dayBase = 3
    /\ probe = NoPrediction
    /\ ServiceInit

NextPredict ==
    \/ \E url \in PredictUrls, shape \in FeedbackShapes, at \in PredictTimes :
           Predict(FeedbackContext(url, shape, at))
    \/ /\ Len(feedbackHistory) < MaxPredictFeedback
       /\ \E url \in PredictUrls, wasDistraction \in BOOLEAN :
              UpdateWithFeedback(
                  UserFeedback(url, wasDistraction, now,
                               FeedbackContext(url,
                                               [s |-> 10, p |-> 5,
                                                h |-> <<url>>], now)))

SpecPredict == InitPredict /\ [][NextPredict]_vars

\* C40: with the default weights the raw score of a context on a
\* social-media or video-streaming page equals the raw score of the same
\* context on a page of category other: the category contributes 0, not
\* the social_media weight 0.4 or the video_streaming weight 0.5.
C40_HyphenatedCategoryAddsNothing ==
    (/\ probe.applied
     /\ modelWeights = initializeModel
     /\ categorizeUrl(probe.context.url)
            \in {"social-media", "video-streaming"})
        => /\ probe.score = probe.asOther
           /\ weightOf(modelWeights,
                       categorizeUrl(probe.context.url)) = 0

\* a video page late at night after 20 idle minutes: late_night 0.3 and
\* recent_distraction 0.4 and rabbit_hole 0.6, nothing for the category
C40_WitnessVideo ==
    /\ probe.applied
    /\ modelWeights = initializeModel
    /\ categorizeUrl(probe.context.url) = "video-streaming"
    /\ categorizeUrl(UrlPlain) = "other"
    /\ probe.context.timestamp = 660
    /\ Len(probe.context.recentHistory) = 6
    /\ probe.score = 13
    /\ probe.asOther = 13

\* a social-media page
C40_WitnessSocial ==
    /\ probe.applied
    /\ modelWeights = initializeModel
    /\ categorizeUrl(probe.context.url) = "social-media"
    /\ probe.score = probe.asOther

\* a category whose key has no hyphen is counted: news adds 0.2
C40_WitnessNewsCounted ==
    /\ probe.applied
    /\ modelWeights = initializeModel
    /\ categorizeUrl(probe.context.url) = "news"
    /\ probe.score = probe.asOther + 2

\* after one feedback on a social-media page the hyphenated key exists and
\* the scores differ
C40_WitnessAfterFeedback ==
    /\ probe.applied
    /\ categorizeUrl(probe.context.url) = "social-media"
    /\ weightOf(modelWeights, "social-media") = 1
    /\ probe.score = probe.asOther + 1


====
